---------------------------- MODULE Spec2Model ----------------------------
(***************************************************************************)
(* A model of chors, a hierarchical task manager: the ordered persistent   *)
(* map, the task tree and its path operations, the filter condition        *)
(* evaluator, the tree filtering algorithm, the selection algorithm, the   *)
(* history manager and the update function.                                *)
(*                                                                         *)
(* Conventions.  Option<T> is a sequence of length at most one: None is    *)
(* <<>> and Some(x) is <<x>>.  Strings that the program inspects (task     *)
(* descriptions, tag names) are sequences of one-character strings.        *)
(* Result<T, String> is a record [ok, val] or [ok, err].  A completion     *)
(* timestamp Option<DateTime<Utc>> is kept as its presence (is_some).      *)
(* Uuids are natural numbers.                                              *)
(***************************************************************************)
EXTENDS Naturals, Integers, Sequences, FiniteSets, TLC

VARIABLES
    model,      \* update loop: the current Model value
    history,    \* update loop: the History (undo_stack, redo_stack, ...)
    env,        \* the next fresh Uuids (Uuid::now_v7) and the number of calls made
    tasks,      \* tree specifications: the task tree under the operations
    call        \* the last call made: its inputs, the state before, its result

vars == <<model, history, env, tasks, call>>

---------------------------------------------------------------------------
(* Bounds of the model *)

\* Number of distinct task ids (Uuids) that are ever issued.
MaxTasks == 3
\* Number of filters that AddFilter registers besides the default filter.
MaxFilters == 1
\* Number of update calls in one run of the update loop.
MaxSteps == 4

\* History capacity handed to History::new.
MaxHistory == 2

TaskIds == 1..MaxTasks

None == <<>>
Some(x) == <<x>>
is_some(o) == o # <<>>
is_none(o) == o = <<>>
unwrap(o) == o[1]

Ok(v) == [ok |-> TRUE, val |-> v]
Err(e) == [ok |-> FALSE, err |-> e]

---------------------------------------------------------------------------
(* utils.rs: PersistentIndexMap *)

PersistentIndexMap_new == [map |-> <<>>, order |-> <<>>]

contains_key(m, key) == key \in DOMAIN m.map

\* insert that moves a key that is present to the end of the order.
insert_moving_to_end(m, key, value) ==
    [map   |-> (key :> value) @@ m.map,
     order |-> Append(SelectSeq(m.order, LAMBDA k : k # key), key)]

insert(m, key, value) ==
    [map   |-> (key :> value) @@ m.map,
     order |-> IF ~contains_key(m, key) THEN Append(m.order, key) ELSE m.order]

RECURSIVE FilterNe(_, _)
FilterNe(s, key) ==
    IF s = <<>> THEN <<>>
    ELSE IF Head(s) # key THEN <<Head(s)>> \o FilterNe(Tail(s), key)
    ELSE FilterNe(Tail(s), key)

\* remove that puts the last key into the place of the removed one
\* (a swap_remove).
remove_swapping_last(m, key) ==
    IF contains_key(m, key)
    THEN [map   |-> [k \in (DOMAIN m.map) \ {key} |-> m.map[k]],
          order |-> SubSeq([i \in DOMAIN m.order |->
                               IF m.order[i] = key THEN m.order[Len(m.order)]
                               ELSE m.order[i]],
                           1, Len(m.order) - 1)]
    ELSE m

remove(m, key) ==
    IF contains_key(m, key)
    THEN [map   |-> [k \in (DOMAIN m.map) \ {key} |-> m.map[k]],
          order |-> FilterNe(m.order, key)]
    ELSE m

\* swap that writes key2 at both indices.
swap_overwriting(m, key1, key2) ==
    IF (\E i \in DOMAIN m.order : m.order[i] = key1)
          /\ (\E i \in DOMAIN m.order : m.order[i] = key2)
    THEN Some([map   |-> m.map,
               order |-> [i \in DOMAIN m.order |->
                             IF m.order[i] = key1 THEN key2 ELSE m.order[i]]])
    ELSE None

\* Iterator::position on the order for both keys (None when either is
\* missing), then Vector::set at both indices.
swap(m, key1, key2) ==
    IF (\E i \in DOMAIN m.order : m.order[i] = key1)
          /\ (\E i \in DOMAIN m.order : m.order[i] = key2)
    THEN LET idx1 == CHOOSE i \in DOMAIN m.order :
                         m.order[i] = key1 /\ \A j \in 1..(i - 1) : m.order[j] # key1
             idx2 == CHOOSE i \in DOMAIN m.order :
                         m.order[i] = key2 /\ \A j \in 1..(i - 1) : m.order[j] # key2
         IN  Some([map   |-> m.map,
                   order |-> [[m.order EXCEPT ![idx1] = key2]
                                 EXCEPT ![idx2] = key1]])
    ELSE None

clear(m) == [map |-> <<>>, order |-> <<>>]

\* The loop of from_iter: map.insert and order.push_back for every pair.
RECURSIVE FromIterLoop(_, _)
FromIterLoop(pairs, acc) ==
    IF pairs = <<>> THEN acc
    ELSE FromIterLoop(Tail(pairs),
             [map   |-> (Head(pairs).key :> Head(pairs).value) @@ acc.map,
              order |-> Append(acc.order, Head(pairs).key)])

from_iter(pairs) == FromIterLoop(pairs, [map |-> <<>>, order |-> <<>>])

get(m, key) == IF key \in DOMAIN m.map THEN Some(m.map[key]) ELSE None

\* Iterator::position: the first index (0-based) holding the key.
get_index(m, key) ==
    IF \E i \in 1..Len(m.order) : m.order[i] = key
    THEN Some((CHOOSE i \in 1..Len(m.order) :
                   /\ m.order[i] = key
                   /\ \A j \in 1..(i - 1) : m.order[j] # key) - 1)
    ELSE None

\* index is 0-based, as in the source.
get_key_at_index(m, index) ==
    IF index >= 0 /\ index < Len(m.order) THEN Some(m.order[index + 1]) ELSE None

len(m) == Cardinality(DOMAIN m.map)

RECURSIVE IterFrom(_, _)
IterFrom(m, s) ==
    IF s = <<>> THEN <<>>
    ELSE IF Head(s) \in DOMAIN m.map
         THEN <<[key |-> Head(s), value |-> m.map[Head(s)]]>> \o IterFrom(m, Tail(s))
         ELSE IterFrom(m, Tail(s))

\* The key/value pairs in insertion order.
iter(m) == IterFrom(m, m.order)

keys(m) == m.order

---------------------------------------------------------------------------
(* model/task.rs: Task *)

IsWhitespace(c) == c = " "

\* str::split_whitespace: the maximal runs of non-whitespace characters.
RECURSIVE SplitFrom(_, _)
SplitFrom(s, word) ==
    IF s = <<>> THEN (IF word = <<>> THEN <<>> ELSE <<word>>)
    ELSE IF IsWhitespace(Head(s))
         THEN (IF word = <<>> THEN <<>> ELSE <<word>>) \o SplitFrom(Tail(s), <<>>)
         ELSE SplitFrom(Tail(s), Append(word, Head(s)))

split_whitespace(s) == SplitFrom(s, <<>>)

\* The words of the description with the sentinel stripped.
StripPrefixed(description, sentinel) ==
    LET words == split_whitespace(description)
    IN  {Tail(words[i]) : i \in {j \in 1..Len(words) : words[j][1] = sentinel}}

\* A word is tested for '#' first and for '@' only otherwise; the two
\* sentinels differ, so the two sets are computed independently.
extract_tags_and_contexts(description) ==
    [tags     |-> StripPrefixed(description, "#"),
     contexts |-> StripPrefixed(description, "@")]

Task_new_with_id(description, id) ==
    [id          |-> id,
     description |-> description,
     tags        |-> extract_tags_and_contexts(description).tags,
     contexts    |-> extract_tags_and_contexts(description).contexts,
     completed   |-> FALSE,
     subtasks    |-> PersistentIndexMap_new]

RECURSIVE with_flip_completed(_)
RECURSIVE FlipSubtasksFold(_, _, _)

\* The fold over self.subtasks.keys() of with_flip_completed.
FlipSubtasksFold(subtasks, ks, acc) ==
    IF ks = <<>> THEN acc
    ELSE FlipSubtasksFold(subtasks, Tail(ks),
             insert(acc, Head(ks), with_flip_completed(subtasks.map[Head(ks)])))

with_flip_completed(task) ==
    [task EXCEPT !.completed = ~task.completed,
                 !.subtasks  = FlipSubtasksFold(task.subtasks, keys(task.subtasks),
                                                PersistentIndexMap_new)]


---------------------------------------------------------------------------
(* model/filter.rs: Condition *)

TagCond(name) == [kind |-> "Tag", tag |-> name]
ContextCond(name) == [kind |-> "Context", context |-> name]
CompletionCond(b) == [kind |-> "Completion", completed |-> b]
TextCond(text) == [kind |-> "Text", text |-> text]
NotCond(c) == [kind |-> "Not", cond |-> c]
AndCond(l, r) == [kind |-> "And", left |-> l, right |-> r]
OrCond(l, r) == [kind |-> "Or", left |-> l, right |-> r]
AlwaysTrue == [kind |-> "AlwaysTrue"]

\* str::contains: the text occurs as a contiguous substring.
StrContains(s, text) ==
    \E i \in 0..(Len(s) - Len(text)) :
        \A j \in 1..Len(text) : s[i + j] = text[j]

\* evaluate with the Context arm testing the tags of the task.
RECURSIVE evaluate_context_in_tags(_, _)
evaluate_context_in_tags(cond, task) ==
    CASE cond.kind = "Tag" -> cond.tag \in task.tags
      [] cond.kind = "Context" -> cond.context \in task.tags
      [] cond.kind = "Completion" -> task.completed = cond.completed
      [] cond.kind = "Text" -> StrContains(task.description, cond.text)
      [] cond.kind = "Not" -> ~evaluate_context_in_tags(cond.cond, task)
      [] cond.kind = "And" -> /\ evaluate_context_in_tags(cond.left, task)
                              /\ evaluate_context_in_tags(cond.right, task)
      [] cond.kind = "Or" -> \/ evaluate_context_in_tags(cond.left, task)
                             \/ evaluate_context_in_tags(cond.right, task)
      [] cond.kind = "AlwaysTrue" -> TRUE

RECURSIVE evaluate(_, _)
evaluate(cond, task) ==
    CASE cond.kind = "Tag" -> cond.tag \in task.tags
      [] cond.kind = "Context" -> cond.context \in task.contexts
      [] cond.kind = "Completion" -> task.completed = cond.completed
      [] cond.kind = "Text" -> StrContains(task.description, cond.text)
      [] cond.kind = "Not" -> ~evaluate(cond.cond, task)
      [] cond.kind = "And" -> evaluate(cond.left, task) /\ evaluate(cond.right, task)
      [] cond.kind = "Or" -> evaluate(cond.left, task) \/ evaluate(cond.right, task)
      [] cond.kind = "AlwaysTrue" -> TRUE

---------------------------------------------------------------------------
(* parse.rs and model/filter.rs: the parser of filter expressions *)

\* A nom parser returns the rest of the input and a value, or an error.
Parsed(rest, val) == [ok |-> TRUE, rest |-> rest, val |-> val]
NoParse == [ok |-> FALSE]

\* alt: the first parser that succeeds.
Alt(first, second) == IF first.ok THEN first ELSE second

UpperCase ==
    <<"A", "B", "C", "D", "E", "F", "G", "H", "I", "J", "K", "L", "M",
      "N", "O", "P", "Q", "R", "S", "T", "U", "V", "W", "X", "Y", "Z">>

LowerCase ==
    <<"a", "b", "c", "d", "e", "f", "g", "h", "i", "j", "k", "l", "m",
      "n", "o", "p", "q", "r", "s", "t", "u", "v", "w", "x", "y", "z">>

Digits == {"0", "1", "2", "3", "4", "5", "6", "7", "8", "9"}

\* char::is_alphanumeric on the characters of the model.
Alphanumeric ==
    {UpperCase[i] : i \in DOMAIN UpperCase}
        \cup {LowerCase[i] : i \in DOMAIN LowerCase} \cup Digits

to_lowercase(c) ==
    IF \E i \in DOMAIN UpperCase : UpperCase[i] = c
    THEN LowerCase[CHOOSE i \in DOMAIN UpperCase : UpperCase[i] = c]
    ELSE c

\* The characters take_while1 accepts in parse_tag and parse_context.
TagChars == Alphanumeric \cup {"_", "-"}

DropPrefix(input, n) == SubSeq(input, n + 1, Len(input))

\* The length of the longest prefix whose characters are all in the set.
CountWhileIn(input, set) ==
    CHOOSE n \in 0..Len(input) :
        /\ \A i \in 1..n : input[i] \in set
        /\ n = Len(input) \/ input[n + 1] \notin set

\* The length of the longest prefix without the character.
CountUntil(input, c) ==
    CHOOSE n \in 0..Len(input) :
        /\ \A i \in 1..n : input[i] # c
        /\ n = Len(input) \/ input[n + 1] = c

\* multispace0 never fails: the input after its leading whitespace.
multispace0(input) == DropPrefix(input, CountWhileIn(input, {" "}))

tag(text, input) ==
    IF Len(input) >= Len(text) /\ SubSeq(input, 1, Len(text)) = text
    THEN Parsed(DropPrefix(input, Len(text)), text)
    ELSE NoParse

tag_no_case(text, input) ==
    IF /\ Len(input) >= Len(text)
       /\ \A i \in 1..Len(text) : to_lowercase(input[i]) = to_lowercase(text[i])
    THEN Parsed(DropPrefix(input, Len(text)), SubSeq(input, 1, Len(text)))
    ELSE NoParse

\* A sentinel character followed by one or more TagChars: the name.
Prefixed(sentinel, input) ==
    IF /\ input # <<>>
       /\ Head(input) = sentinel
       /\ CountWhileIn(Tail(input), TagChars) >= 1
    THEN Parsed(DropPrefix(input, 1 + CountWhileIn(Tail(input), TagChars)),
                SubSeq(input, 2, 1 + CountWhileIn(Tail(input), TagChars)))
    ELSE NoParse

parse_tag(input) == Prefixed("#", input)

parse_context(input) == Prefixed("@", input)

\* char('"'), is_not("\""), opt(char('"')): the recognized text, quotes
\* included.
parse_quoted_text(input) ==
    IF /\ input # <<>>
       /\ Head(input) = "\""
       /\ CountUntil(Tail(input), "\"") >= 1
    THEN LET n == 1 + CountUntil(Tail(input), "\"")
             closed == n < Len(input)
         IN  Parsed(DropPrefix(input, IF closed THEN n + 1 ELSE n),
                    SubSeq(input, 1, IF closed THEN n + 1 ELSE n))
    ELSE NoParse

parse_not_operator(input) == tag_no_case(<<"n", "o", "t">>, input)

parse_and_operator(input) == tag_no_case(<<"a", "n", "d">>, input)

parse_or_operator(input) == tag_no_case(<<"o", "r">>, input)

parse_completed(input) == tag(<<"[", "x", "]">>, input)

parse_incomplete(input) == tag(<<"[", " ", "]">>, input)

\* one_of("()")
parse_parenthesis(input) ==
    IF input # <<>> /\ Head(input) \in {"(", ")"}
    THEN Parsed(Tail(input), Head(input))
    ELSE NoParse

\* map(parser, f) with a constant or a constructor applied by the caller.
MapTo(r, val) == IF r.ok THEN Parsed(r.rest, val) ELSE r

\* str::trim_matches('"')
RECURSIVE trim_matches(_, _)
trim_matches(text, c) ==
    IF text # <<>> /\ Head(text) = c THEN trim_matches(Tail(text), c)
    ELSE IF text # <<>> /\ text[Len(text)] = c
    THEN trim_matches(SubSeq(text, 1, Len(text) - 1), c)
    ELSE text

tag_condition(input) ==
    IF parse_tag(input).ok
    THEN MapTo(parse_tag(input), TagCond(parse_tag(input).val))
    ELSE NoParse

context_condition(input) ==
    IF parse_context(input).ok
    THEN MapTo(parse_context(input), ContextCond(parse_context(input).val))
    ELSE NoParse

text_condition(input) ==
    IF parse_quoted_text(input).ok
    THEN MapTo(parse_quoted_text(input),
               TextCond(trim_matches(parse_quoted_text(input).val, "\"")))
    ELSE NoParse

RECURSIVE expression(_)
RECURSIVE term(_)
RECURSIVE factor(_)
RECURSIVE operand(_)
RECURSIVE OrMany(_)
RECURSIVE AndMany(_)

\* many0(pair(preceded(multispace0, parse_or_operator),
\*            preceded(multispace0, term))) folded into Condition::Or: the
\* repetition stops, keeping what it has, where the pair fails.
OrTerm(acc, t) ==
    IF ~t.ok THEN acc ELSE OrMany(Parsed(t.rest, OrCond(acc.val, t.val)))

OrOperator(acc, op) ==
    IF ~op.ok THEN acc ELSE OrTerm(acc, term(multispace0(op.rest)))

OrMany(acc) == OrOperator(acc, parse_or_operator(multispace0(acc.rest)))

ExpressionFrom(first) == IF ~first.ok THEN first ELSE OrMany(first)

expression(input) == ExpressionFrom(term(input))

AndFactor(acc, f) ==
    IF ~f.ok THEN acc ELSE AndMany(Parsed(f.rest, AndCond(acc.val, f.val)))

AndOperator(acc, op) ==
    IF ~op.ok THEN acc ELSE AndFactor(acc, factor(multispace0(op.rest)))

AndMany(acc) == AndOperator(acc, parse_and_operator(multispace0(acc.rest)))

TermFrom(first) == IF ~first.ok THEN first ELSE AndMany(first)

term(input) == TermFrom(factor(input))

Negated(f) == IF ~f.ok THEN f ELSE Parsed(f.rest, NotCond(f.val))

\* A 'not' that negates the whole expression after it.
NotFactor_negating_expression(op) ==
    IF ~op.ok THEN op ELSE Negated(expression(multispace0(op.rest)))

\* preceded(pair(parse_not_operator, multispace0), factor)
NotFactor(op) ==
    IF ~op.ok THEN op ELSE Negated(factor(multispace0(op.rest)))

factor(input) == Alt(NotFactor(parse_not_operator(input)), operand(input))

\* delimited(parse_parenthesis, expression, parse_parenthesis)
ClosedBy(e, close) == IF ~close.ok THEN close ELSE Parsed(close.rest, e.val)

Closed(e) == IF ~e.ok THEN e ELSE ClosedBy(e, parse_parenthesis(e.rest))

Opened(open) == IF ~open.ok THEN open ELSE Closed(expression(open.rest))

operand(input) ==
    Alt(Opened(parse_parenthesis(input)),
    Alt(MapTo(parse_completed(input), CompletionCond(TRUE)),
    Alt(MapTo(parse_incomplete(input), CompletionCond(FALSE)),
    Alt(tag_condition(input),
    Alt(context_condition(input),
        text_condition(input))))))

\* str::trim on the characters of the model.
trim(input) == trim_matches(input, " ")

ParsingError == [msg |-> "Parsing error: {}"]

\* all_consuming: an error unless the whole input is parsed.
all_consuming(r) ==
    IF r.ok /\ r.rest = <<>> THEN Ok(r.val) ELSE Err(ParsingError)

\* parse_filter_expression without the test for an empty input.
parse_filter_expression_without_empty(input) ==
    all_consuming(expression(input))

parse_filter_expression(input) ==
    IF trim(input) = <<>> THEN Ok(AlwaysTrue)
    ELSE all_consuming(expression(input))

---------------------------------------------------------------------------
(* model/model.rs: operations on the task tree at a path *)

NotFound(id) == [msg |-> "Task with ID {} not found", id |-> id]
NotFoundDot(id) == [msg |-> "Task with ID {} not found.", id |-> id]
PathEmpty(what) == [msg |-> what]

\* remove_task_at_path without the check of the last segment: a key that is
\* not in the map is removed all the same.
RECURSIVE remove_task_at_path_unchecked(_, _)
remove_task_at_path_unchecked(ts, path) ==
    IF path = <<>> THEN Err(PathEmpty("Path is empty; cannot remove task"))
    ELSE
      LET current_id == Head(path)
          rest_of_path == Tail(path)
      IN  IF rest_of_path = <<>>
          THEN Ok(remove(ts, current_id))
          ELSE IF is_none(get(ts, current_id)) THEN Err(NotFound(current_id))
          ELSE
            LET current_task == unwrap(get(ts, current_id))
                sub == remove_task_at_path_unchecked(current_task.subtasks,
                                                     rest_of_path)
            IN  IF ~sub.ok THEN sub
                ELSE Ok(insert(ts, current_id,
                               [current_task EXCEPT !.subtasks = sub.val]))

\* remove_task_at_path that sets the completion of each ancestor from the
\* children it keeps.
RECURSIVE remove_task_at_path_recompleting(_, _)
remove_task_at_path_recompleting(ts, path) ==
    IF path = <<>> THEN Err(PathEmpty("Path is empty; cannot remove task"))
    ELSE
      LET current_id == Head(path)
          rest_of_path == Tail(path)
      IN  IF rest_of_path = <<>>
          THEN IF contains_key(ts, current_id)
               THEN Ok(remove(ts, current_id))
               ELSE Err(NotFound(current_id))
          ELSE IF is_none(get(ts, current_id)) THEN Err(NotFound(current_id))
          ELSE
            LET current_task == unwrap(get(ts, current_id))
                sub == remove_task_at_path_recompleting(current_task.subtasks,
                                                        rest_of_path)
            IN  IF ~sub.ok THEN sub
                ELSE Ok(insert(ts, current_id,
                               [current_task EXCEPT
                                  !.subtasks = sub.val,
                                  !.completed = \A k \in DOMAIN sub.val.map :
                                                   sub.val.map[k].completed]))

RECURSIVE remove_task_at_path(_, _)
remove_task_at_path(ts, path) ==
    IF path = <<>> THEN Err(PathEmpty("Path is empty; cannot remove task"))
    ELSE
      LET current_id == Head(path)
          rest_of_path == Tail(path)
      IN  IF rest_of_path = <<>>
          THEN IF contains_key(ts, current_id)
               THEN Ok(remove(ts, current_id))
               ELSE Err(NotFound(current_id))
          ELSE IF is_none(get(ts, current_id)) THEN Err(NotFound(current_id))
          ELSE
            LET current_task == unwrap(get(ts, current_id))
                sub == remove_task_at_path(current_task.subtasks, rest_of_path)
            IN  IF ~sub.ok THEN sub
                ELSE Ok(insert(ts, current_id,
                               [current_task EXCEPT !.subtasks = sub.val]))

RECURSIVE insert_task_at_path(_, _, _)
insert_task_at_path(ts, path, task) ==
    IF path = <<>> THEN Ok(insert(ts, task.id, task))
    ELSE
      LET current_id == Head(path)
          rest_of_path == Tail(path)
      IN  IF is_none(get(ts, current_id)) THEN Err(NotFoundDot(current_id))
          ELSE
            LET current_task == unwrap(get(ts, current_id))
                sub == insert_task_at_path(current_task.subtasks, rest_of_path, task)
            IN  IF ~sub.ok THEN sub
                ELSE Ok(insert(ts, current_task.id,
                               [current_task EXCEPT !.subtasks = sub.val]))

\* Iterator::all over the subtasks' completion.
all_subtasks_completed(subtasks) ==
    \A i \in 1..Len(iter(subtasks)) : iter(subtasks)[i].value.completed

\* flip_task_and_update_parents without the update of the parents: the tasks
\* on the path keep their completion.
RECURSIVE flip_task_without_update(_, _)
flip_task_without_update(ts, path) ==
    IF path = <<>> THEN Err(PathEmpty("Path is empty; cannot flip task completion"))
    ELSE
      LET current_id == Head(path)
          rest_of_path == Tail(path)
      IN  IF is_none(get(ts, current_id)) THEN Err(NotFound(current_id))
          ELSE
            LET task == unwrap(get(ts, current_id))
            IN  IF rest_of_path = <<>>
                THEN Ok(insert(ts, current_id, with_flip_completed(task)))
                ELSE
                  LET sub == flip_task_without_update(task.subtasks, rest_of_path)
                  IN  IF ~sub.ok THEN sub
                      ELSE Ok(insert(ts, current_id,
                                     [task EXCEPT !.subtasks = sub.val]))

\* flip_task_and_update_parents that removes the task it changes from its
\* map before it inserts the new one.
RECURSIVE flip_task_reinserting(_, _)
flip_task_reinserting(ts, path) ==
    IF path = <<>> THEN Err(PathEmpty("Path is empty; cannot flip task completion"))
    ELSE
      LET current_id == Head(path)
          rest_of_path == Tail(path)
      IN  IF is_none(get(ts, current_id)) THEN Err(NotFound(current_id))
          ELSE
            LET task == unwrap(get(ts, current_id))
            IN  IF rest_of_path = <<>>
                THEN Ok(insert(remove(ts, current_id), current_id,
                               with_flip_completed(task)))
                ELSE
                  LET sub == flip_task_reinserting(task.subtasks, rest_of_path)
                  IN  IF ~sub.ok THEN sub
                      ELSE Ok(insert(remove(ts, current_id), current_id,
                                [task EXCEPT
                                   !.completed =
                                       \A k \in DOMAIN sub.val.map :
                                           sub.val.map[k].completed,
                                   !.subtasks = sub.val]))

RECURSIVE flip_task_and_update_parents(_, _)
flip_task_and_update_parents(ts, path) ==
    IF path = <<>> THEN Err(PathEmpty("Path is empty; cannot flip task completion"))
    ELSE
      LET current_id == Head(path)
          rest_of_path == Tail(path)
      IN  IF is_none(get(ts, current_id)) THEN Err(NotFound(current_id))
          ELSE
            LET task == unwrap(get(ts, current_id))
            IN  IF rest_of_path = <<>>
                THEN Ok(insert(ts, current_id, with_flip_completed(task)))
                ELSE
                  LET sub == flip_task_and_update_parents(task.subtasks, rest_of_path)
                  IN  IF ~sub.ok THEN sub
                      ELSE Ok(insert(ts, current_id,
                                [task EXCEPT
                                   !.completed = all_subtasks_completed(sub.val),
                                   !.subtasks = sub.val]))

\* The insertion that leaves the completion of the tasks on the path alone.
insert_task_without_uncomplete(ts, path, task_to_insert) ==
    insert_task_at_path(ts, path, task_to_insert)

RECURSIVE insert_task_and_uncomplete_parents(_, _, _)
insert_task_and_uncomplete_parents(ts, path, task_to_insert) ==
    IF path = <<>> THEN Ok(insert(ts, task_to_insert.id, task_to_insert))
    ELSE
      LET current_id == Head(path)
          rest_of_path == Tail(path)
      IN  IF is_none(get(ts, current_id)) THEN Err(NotFound(current_id))
          ELSE
            LET current_task == unwrap(get(ts, current_id))
                sub == insert_task_and_uncomplete_parents(
                           current_task.subtasks, rest_of_path, task_to_insert)
            IN  IF ~sub.ok THEN sub
                ELSE Ok(insert(ts, current_id,
                          [current_task EXCEPT
                             !.subtasks = sub.val,
                             !.completed = IF current_task.completed THEN FALSE
                                           ELSE current_task.completed]))

RECURSIVE flatten_tasks(_)
RECURSIVE FlattenLoop(_)
FlattenLoop(items) ==
    IF items = <<>> THEN <<>>
    ELSE <<Head(items).key>> \o flatten_tasks(Head(items).value.subtasks)
                             \o FlattenLoop(Tail(items))

flatten_tasks(task_tree) == FlattenLoop(iter(task_tree))

---------------------------------------------------------------------------
(* model/model.rs: the tree filtering algorithm *)

RECURSIVE filter_tasks_include_all(_, _, _, _)
RECURSIVE IncludeAllLoop(_, _, _)
RECURSIVE filter_tasks_recursive(_, _, _, _, _, _)
RECURSIVE RecursiveLoop(_, _, _, _, _)

\* for (subtask_id, subtask) in task.subtasks.iter() { include_all(...) }
IncludeAllLoop(items, new_path, results) ==
    IF items = <<>> THEN results
    ELSE IncludeAllLoop(Tail(items), new_path,
             filter_tasks_include_all(Head(items).key, Head(items).value,
                                      new_path, results))

filter_tasks_include_all(task_id, task, current_path, results) ==
    LET new_path == Append(current_path, task_id)
    IN  IncludeAllLoop(iter(task.subtasks), new_path,
                       insert(results, task_id, new_path))

\* for (subtask_id, subtask) in task.subtasks.iter() { recursive(..., false) }
\* with the accumulated flag any_descendants_match.
RecursiveLoop(items, condition, new_path, results, any) ==
    IF items = <<>> THEN [matches |-> any, results |-> results]
    ELSE LET r == filter_tasks_recursive(Head(items).key, Head(items).value,
                                         condition, new_path, results, FALSE)
         IN  RecursiveLoop(Tail(items), condition, new_path, r.results,
                           any \/ r.matches)

\* Mutant: a task none of whose ancestors matches, and that does not match
\* itself, is left out although one of its descendants matches.
filter_tasks_recursive_without_ancestors(task_id, task, condition, current_path, results, parent_matches) ==
    LET matches == parent_matches \/ evaluate(condition, task)
        new_path == Append(current_path, task_id)
    IN  IF matches
        THEN [matches |-> TRUE,
              results |-> IncludeAllLoop(iter(task.subtasks), new_path,
                                         insert(results, task_id, new_path))]
        ELSE RecursiveLoop(iter(task.subtasks), condition, new_path, results, FALSE)

filter_tasks_recursive(task_id, task, condition, current_path, results, parent_matches) ==
    LET current_task_matches == evaluate(condition, task)
        matches == parent_matches \/ current_task_matches
        new_path == Append(current_path, task_id)
    IN  IF matches
        THEN [matches |-> TRUE,
              results |-> IncludeAllLoop(iter(task.subtasks), new_path,
                                         insert(results, task_id, new_path))]
        ELSE LET d == RecursiveLoop(iter(task.subtasks), condition, new_path,
                                    results, FALSE)
             IN  IF d.matches
                 THEN [matches |-> TRUE,
                       results |-> insert(d.results, task_id, new_path)]
                 ELSE [matches |-> FALSE, results |-> d.results]

RECURSIVE FilterTopLoop(_, _, _)
FilterTopLoop(items, condition, results) ==
    IF items = <<>> THEN results
    ELSE FilterTopLoop(Tail(items), condition,
             filter_tasks_recursive(Head(items).key, Head(items).value, condition,
                                    <<>>, results, FALSE).results)

filter_tasks(ts, condition) ==
    FilterTopLoop(iter(ts), condition, PersistentIndexMap_new)

---------------------------------------------------------------------------
(* model/model.rs: the selection algorithm *)

\* Iterator::position on the flattened list (0-based), None when absent.
Position(flat, id) ==
    IF \E i \in 1..Len(flat) : flat[i] = id
    THEN Some((CHOOSE i \in 1..Len(flat) :
                   /\ flat[i] = id
                   /\ \A j \in 1..(i - 1) : flat[j] # id) - 1)
    ELSE None

Max(a, b) == IF a >= b THEN a ELSE b

\* The loop with the backward check before the forward one.
RECURSIVE BfsLoop_backward_first(_, _, _, _, _)
BfsLoop_backward_first(flat, filtered, selected_index, offset, max_offset) ==
    IF offset > max_offset THEN None
    ELSE
      LET forward_index == selected_index + offset
          forward_hit == /\ forward_index < Len(flat)
                         /\ contains_key(filtered, flat[forward_index + 1])
          backward_hit == /\ offset > 0
                          /\ selected_index - offset >= 0
                          /\ contains_key(filtered, flat[selected_index - offset + 1])
      IN  IF backward_hit THEN Some(flat[selected_index - offset + 1])
          ELSE IF forward_hit THEN Some(flat[forward_index + 1])
          ELSE BfsLoop_backward_first(flat, filtered, selected_index,
                                      offset + 1, max_offset)

\* The while loop of bfs_find_closest_task from the given offset on.
RECURSIVE BfsLoop(_, _, _, _, _)
BfsLoop(flat, filtered, selected_index, offset, max_offset) ==
    IF offset > max_offset THEN None
    ELSE
      LET forward_index == selected_index + offset
          forward_hit == /\ forward_index < Len(flat)
                         /\ contains_key(filtered, flat[forward_index + 1])
          backward_hit == /\ offset > 0
                          /\ selected_index - offset >= 0
                          /\ contains_key(filtered, flat[selected_index - offset + 1])
      IN  IF forward_hit THEN Some(flat[forward_index + 1])
          ELSE IF backward_hit THEN Some(flat[selected_index - offset + 1])
          ELSE BfsLoop(flat, filtered, selected_index, offset + 1, max_offset)

BfsFrom(flat, filtered, pos) ==
    IF is_none(pos) THEN None
    ELSE BfsLoop(flat, filtered, unwrap(pos), 0, Max(Len(flat), unwrap(pos)))

BfsIn(flat, filtered, selected_task_id) ==
    BfsFrom(flat, filtered, Position(flat, selected_task_id))

bfs_find_closest_task(task_tree, filtered, selected_task_id) ==
    BfsIn(flatten_tasks(task_tree), filtered, selected_task_id)

\* if let Some(closest_task) = bfs_find_closest_task(..) { return it }
\* and otherwise the first key of the filtered tasks.
ClosestOrFirst(closest, filtered) ==
    IF is_some(closest) THEN closest ELSE get_key_at_index(filtered, 0)

\* get_new_selection that does not look at the id the caller asks for.
get_new_selection_ignoring_desired(m, filtered, desired_task_id) ==
    IF is_some(m.selected_task)
    THEN IF contains_key(filtered, unwrap(m.selected_task))
         THEN m.selected_task
         ELSE ClosestOrFirst(bfs_find_closest_task(m.tasks, filtered,
                                                   unwrap(m.selected_task)),
                             filtered)
    ELSE get_key_at_index(filtered, 0)

\* get_new_selection that keeps the current selection without looking it up
\* in the new visible-set.
get_new_selection_unrepaired(m, filtered, desired_task_id) ==
    IF is_some(desired_task_id) /\ contains_key(filtered, unwrap(desired_task_id))
    THEN desired_task_id
    ELSE IF is_some(m.selected_task)
    THEN m.selected_task
    ELSE get_key_at_index(filtered, 0)

\* get_new_selection without the final choice of the first visible task.
get_new_selection_without_first(m, filtered, desired_task_id) ==
    IF is_some(desired_task_id) /\ contains_key(filtered, unwrap(desired_task_id))
    THEN desired_task_id
    ELSE IF is_some(m.selected_task)
    THEN IF contains_key(filtered, unwrap(m.selected_task))
         THEN m.selected_task
         ELSE bfs_find_closest_task(m.tasks, filtered, unwrap(m.selected_task))
    ELSE None

get_new_selection(m, filtered, desired_task_id) ==
    IF is_some(desired_task_id) /\ contains_key(filtered, unwrap(desired_task_id))
    THEN desired_task_id
    ELSE IF is_some(m.selected_task)
    THEN IF contains_key(filtered, unwrap(m.selected_task))
         THEN m.selected_task
         ELSE ClosestOrFirst(bfs_find_closest_task(m.tasks, filtered,
                                                   unwrap(m.selected_task)),
                             filtered)
    ELSE get_key_at_index(filtered, 0)

---------------------------------------------------------------------------
(* model/model.rs: Model *)

\* The Uuid that Filter::new draws for the default filter in Model::new.
DefaultFilterId == 0

FilterCondition(text, condition) ==
    [expression |-> text, condition |-> condition]

\* FilterCondition::new: the text with the condition it parses to.
FilterCondition_new(text) ==
    IF parse_filter_expression(text).ok
    THEN Ok(FilterCondition(text, parse_filter_expression(text).val))
    ELSE parse_filter_expression(text)

Filter_new(id, name, filter_condition) ==
    [id |-> id, name |-> name, filter_condition |-> filter_condition]

NoMessage == [kind |-> "None"]
Success(text) == [kind |-> "Success", text |-> text]
Error(text) == [kind |-> "Error", text |-> text]

Model_new ==
    LET empty_filter_condition == FilterCondition(<<>>, AlwaysTrue)
        default_filter == Filter_new(DefaultFilterId, "default", empty_filter_condition)
    IN  [tasks              |-> PersistentIndexMap_new,
         filters            |-> insert(PersistentIndexMap_new, DefaultFilterId,
                                       default_filter),
         selected_filter_id |-> Some(DefaultFilterId),
         current_filter     |-> empty_filter_condition,
         filtered_tasks     |-> PersistentIndexMap_new,
         selected_task      |-> None,
         message            |-> NoMessage,
         mode               |-> "List",
         overlay            |-> "None",
         input              |-> <<>>,
         cursor             |-> 0]

\* Self { tasks, filtered_tasks, selected_task, ..self.clone() }
Filtered(m, new_tasks, filtered, desired_task_id) ==
    [m EXCEPT !.tasks = new_tasks,
              !.filtered_tasks = filtered,
              !.selected_task = get_new_selection(m, filtered, desired_task_id)]

with_tasks(m, new_tasks, desired_task_id) ==
    Filtered(m, new_tasks, filter_tasks(new_tasks, m.current_filter.condition),
             desired_task_id)

\* The ? operator on the new tree, then the filter and the selection.
TryWithTasks(m, r, desired_task_id) ==
    IF ~r.ok THEN r ELSE Ok(with_tasks(m, r.val, desired_task_id))

\* with_removed_task that keeps the visible-set and the selection it had.
KeepingVisibleSet(m, r) ==
    IF ~r.ok THEN r ELSE Ok([m EXCEPT !.tasks = r.val])

with_removed_task_keeping_visible_set(m, path) ==
    KeepingVisibleSet(m, remove_task_at_path(m.tasks, path))

\* with_removed_task that drops the selection before it removes the task.
with_removed_task_unselected(m, path) ==
    TryWithTasks([m EXCEPT !.selected_task = None],
                 remove_task_at_path(m.tasks, path), None)

with_removed_task(m, path) ==
    TryWithTasks(m, remove_task_at_path(m.tasks, path), None)

with_flipped_completion(m, path) ==
    TryWithTasks(m, flip_task_and_update_parents(m.tasks, path), None)

get_path(m) ==
    IF is_some(m.selected_task) THEN get(m.filtered_tasks, unwrap(m.selected_task))
    ELSE None

\* Vector::drop_last
drop_last(path) == SubSeq(path, 1, Len(path) - 1)

\* with_sibling_task that inserts at the path of the selected task, not at
\* its parent's.
SiblingAt_below_selected(m, path, task) ==
    IF is_some(path) /\ Len(unwrap(path)) >= 2
    THEN TryWithTasks(m, insert_task_and_uncomplete_parents(
                             m.tasks, unwrap(path), task),
                      Some(task.id))
    ELSE Ok(with_tasks(m, insert(m.tasks, task.id, task), Some(task.id)))

SiblingAt(m, path, task) ==
    IF is_some(path) /\ Len(unwrap(path)) >= 2
    THEN TryWithTasks(m, insert_task_and_uncomplete_parents(
                             m.tasks, drop_last(unwrap(path)), task),
                      Some(task.id))
    ELSE Ok(with_tasks(m, insert(m.tasks, task.id, task), Some(task.id)))

with_sibling_task(m, task) == SiblingAt(m, get_path(m), task)

ChildAt(m, path, task) ==
    IF is_some(path) /\ unwrap(path) # <<>>
    THEN TryWithTasks(m, insert_task_and_uncomplete_parents(
                             m.tasks, unwrap(path), task),
                      Some(task.id))
    ELSE Err([msg |-> "Can't insert a child task with no parent task selected"])

with_child_task(m, task) == ChildAt(m, get_path(m), task)

\* with_selection_moved that stops at the first and at the last task.
with_selection_moved_clamped(m, direction) ==
    LET task_count == len(m.filtered_tasks)
    IN  IF task_count = 0 THEN m
        ELSE IF is_none(m.selected_task)
        THEN [m EXCEPT !.selected_task =
                 IF direction = "Up"
                 THEN get_key_at_index(m.filtered_tasks, task_count - 1)
                 ELSE get_key_at_index(m.filtered_tasks, 0)]
        ELSE IF is_none(get_index(m.filtered_tasks, unwrap(m.selected_task)))
        THEN [m EXCEPT !.mode = "Panic"]
        ELSE
          LET selected_index == unwrap(get_index(m.filtered_tasks,
                                                 unwrap(m.selected_task)))
              new_index ==
                 IF direction = "Up"
                 THEN (IF selected_index = 0 THEN 0 ELSE selected_index - 1)
                 ELSE (IF selected_index = task_count - 1 THEN selected_index
                       ELSE selected_index + 1)
          IN  [m EXCEPT !.selected_task =
                            get_key_at_index(m.filtered_tasks, new_index)]

\* The expect() on a selection that is no key of filtered_tasks panics; the
\* model marks the panic in the mode field.
with_selection_moved(m, direction) ==
    LET task_count == len(m.filtered_tasks)
    IN  IF task_count = 0 THEN m
        ELSE IF is_none(m.selected_task)
        THEN [m EXCEPT !.selected_task =
                 IF direction = "Up"
                 THEN get_key_at_index(m.filtered_tasks, task_count - 1)
                 ELSE get_key_at_index(m.filtered_tasks, 0)]
        ELSE IF is_none(get_index(m.filtered_tasks, unwrap(m.selected_task)))
        THEN [m EXCEPT !.mode = "Panic"]
        ELSE
          LET selected_index == unwrap(get_index(m.filtered_tasks,
                                                 unwrap(m.selected_task)))
              new_index ==
                 IF direction = "Up"
                 THEN (IF selected_index = 0 THEN task_count - 1
                       ELSE selected_index - 1)
                 ELSE (IF selected_index = task_count - 1 THEN 0
                       ELSE selected_index + 1)
          IN  [m EXCEPT !.selected_task =
                            get_key_at_index(m.filtered_tasks, new_index)]

with_filter(m, filter) ==
    [m EXCEPT !.filters = insert(m.filters, filter.id, filter)]

with_filter_condition(m, current_filter) ==
    [Filtered(m, m.tasks, filter_tasks(m.tasks, current_filter.condition), None)
        EXCEPT !.current_filter = current_filter]

\* with_filter_select that keeps the visible-set of the filter before.
with_filter_select_keeping_visible_set(m, filter_id) ==
    IF contains_key(m.filters, filter_id)
    THEN Ok([m EXCEPT !.selected_filter_id = Some(filter_id),
                      !.current_filter = m.filters.map[filter_id].filter_condition])
    ELSE Err([msg |-> "Filter with ID {} not found.", id |-> filter_id])

with_filter_select(m, filter_id) ==
    IF contains_key(m.filters, filter_id)
    THEN Ok([Filtered(m, m.tasks,
                      filter_tasks(m.tasks,
                          m.filters.map[filter_id].filter_condition.condition),
                      None)
                EXCEPT !.selected_filter_id = Some(filter_id),
                       !.current_filter = m.filters.map[filter_id].filter_condition])
    ELSE Err([msg |-> "Filter with ID {} not found.", id |-> filter_id])

with_success(m, text) == [m EXCEPT !.message = Success(text)]
with_error(m, text) == [m EXCEPT !.message = Error(text)]

---------------------------------------------------------------------------
(* update/history.rs: History.  Each operation yields the new History and, *)
(* for undo and redo, the Option<Model> it returns.                        *)

History_new(max_history) ==
    [undo_stack  |-> <<>>,
     redo_stack  |-> <<>>,
     last_action |-> None,
     max_history |-> max_history]

Entry(m, message) == [model |-> m, message |-> message]

\* VecDeque::pop_front on a possibly empty deque.
pop_front(q) == IF q = <<>> THEN q ELSE Tail(q)

\* push that leaves the redo stack as it is.
History_push_keeping_redo(h, m, message) ==
    LET evicted == IF Len(h.undo_stack) = h.max_history
                   THEN pop_front(h.undo_stack) ELSE h.undo_stack
    IN  [h EXCEPT !.undo_stack = Append(evicted, Entry(m, message)),
                  !.last_action = None]

\* push that never evicts.
History_push_without_eviction(h, m, message) ==
    [h EXCEPT !.undo_stack = Append(h.undo_stack, Entry(m, message)),
              !.redo_stack = <<>>,
              !.last_action = None]

History_push(h, m, message) ==
    LET evicted == IF Len(h.undo_stack) = h.max_history
                   THEN pop_front(h.undo_stack) ELSE h.undo_stack
    IN  [h EXCEPT !.undo_stack = Append(evicted, Entry(m, message)),
                  !.redo_stack = <<>>,
                  !.last_action = None]

History_undo(h, current_model) ==
    IF h.undo_stack = <<>> THEN [history |-> h, ret |-> None]
    ELSE LET prev == h.undo_stack[Len(h.undo_stack)]
         IN  [history |->
                 [h EXCEPT !.undo_stack = SubSeq(h.undo_stack, 1, Len(h.undo_stack) - 1),
                           !.redo_stack = Append(h.redo_stack,
                                                 Entry(current_model, prev.message)),
                           !.last_action = Some(prev.message)],
              ret |-> Some(prev.model)]

\* redo that saves the snapshot it returns instead of the live model.
History_redo_saving_snapshot(h, current_model) ==
    IF h.redo_stack = <<>> THEN [history |-> h, ret |-> None]
    ELSE LET next == h.redo_stack[Len(h.redo_stack)]
         IN  [history |->
                 [h EXCEPT !.redo_stack = SubSeq(h.redo_stack, 1, Len(h.redo_stack) - 1),
                           !.undo_stack = Append(h.undo_stack,
                                                 Entry(next.model, next.message)),
                           !.last_action = Some(next.message)],
              ret |-> Some(next.model)]

\* redo that does not put the live model back on the undo stack.
History_redo_without_save(h, current_model) ==
    IF h.redo_stack = <<>> THEN [history |-> h, ret |-> None]
    ELSE LET next == h.redo_stack[Len(h.redo_stack)]
         IN  [history |->
                 [h EXCEPT !.redo_stack = SubSeq(h.redo_stack, 1, Len(h.redo_stack) - 1),
                           !.last_action = Some(next.message)],
              ret |-> Some(next.model)]

History_redo(h, current_model) ==
    IF h.redo_stack = <<>> THEN [history |-> h, ret |-> None]
    ELSE LET next == h.redo_stack[Len(h.redo_stack)]
         IN  [history |->
                 [h EXCEPT !.redo_stack = SubSeq(h.redo_stack, 1, Len(h.redo_stack) - 1),
                           !.undo_stack = Append(h.undo_stack,
                                                 Entry(current_model, next.message)),
                           !.last_action = Some(next.message)],
              ret |-> Some(next.model)]

---------------------------------------------------------------------------
(* update/update.rs: update *)

UpdateResult(m, text, save) == [model |-> m, message |-> text, save_to_history |-> save]

\* Result::map(|new_model| UpdateResult::new(new_model).with_message(text))
MapResult(r, text) ==
    IF r.ok THEN Ok(UpdateResult(r.val, Some([msg |-> text]), TRUE)) ELSE r

\* The Undo and Redo arms, given what history.undo or history.redo did.
HistoryArm(u, with_action, without_action, nothing) ==
    [result |->
        IF is_some(u.ret)
        THEN Ok(UpdateResult(unwrap(u.ret),
                  Some(IF is_some(u.history.last_action)
                       THEN [msg |-> with_action,
                             action |-> unwrap(u.history.last_action)]
                       ELSE [msg |-> without_action]),
                  FALSE))
        ELSE Err([msg |-> nothing]),
     history |-> u.history]

\* The match on the message: the Result<UpdateResult, String> and the History
\* as the Undo and Redo arms leave it.
Dispatch(message, m, h) ==
    CASE message.type = "AddSiblingTask" ->
           [result |-> MapResult(with_sibling_task(m, message.task),
                                 "Added sibling task."),
            history |-> h]
      [] message.type = "AddChildTask" ->
           [result |-> MapResult(with_child_task(m, message.task),
                                 "Added child task."),
            history |-> h]
      [] message.type = "RemoveTask" ->
           [result |-> MapResult(with_removed_task(m, message.path),
                                 "Removed task."),
            history |-> h]
      [] message.type = "AddFilter" ->
           [result |-> MapResult(Ok(with_filter(m, message.filter)),
                                 "Added new filter."),
            history |-> h]
      [] message.type = "SelectFilter" ->
           [result |-> MapResult(with_filter_select(m, message.filter_id),
                                 "Selected filter."),
            history |-> h]
      [] message.type = "ApplyFilter" ->
           [result |-> MapResult(Ok(with_filter_condition(m, message.filter)),
                                 "Selected filter"),
            history |-> h]
      [] message.type = "Navigate" ->
           [result |-> Ok(UpdateResult(with_selection_moved(m, message.direction),
                                       None, FALSE)),
            history |-> h]
      [] message.type = "Undo" ->
           HistoryArm(History_undo(h, m), "Undid action: {:?}",
                      "Undid last action.", "Nothing to undo!")
      [] message.type = "Redo" ->
           HistoryArm(History_redo(h, m), "Redid action: {:?}",
                      "Redid last action.", "Nothing to redo!")

\* The match on the result with a push to the history for every success,
\* whatever save_to_history says.
Finish_always_saving(d, message, m) ==
    IF d.result.ok
    THEN [model |-> IF is_some(d.result.val.message)
                    THEN with_success(d.result.val.model,
                                      unwrap(d.result.val.message))
                    ELSE d.result.val.model,
          history |-> History_push(d.history, d.result.val.model, message),
          ok |-> TRUE]
    ELSE [model |-> with_error(m, d.result.err),
          history |-> d.history,
          ok |-> FALSE]

\* The match on the result with a push to the history for a failure too.
Finish_saving_failures(d, message, m) ==
    IF d.result.ok
    THEN [model |-> IF is_some(d.result.val.message)
                    THEN with_success(d.result.val.model,
                                      unwrap(d.result.val.message))
                    ELSE d.result.val.model,
          history |-> IF d.result.val.save_to_history
                      THEN History_push(d.history, d.result.val.model, message)
                      ELSE d.history,
          ok |-> TRUE]
    ELSE [model |-> with_error(m, d.result.err),
          history |-> History_push(d.history, m, message),
          ok |-> FALSE]

\* The match on the result: the push to the history and the status message.
Finish(d, message, m) ==
    IF d.result.ok
    THEN [model |-> IF is_some(d.result.val.message)
                    THEN with_success(d.result.val.model,
                                      unwrap(d.result.val.message))
                    ELSE d.result.val.model,
          history |-> IF d.result.val.save_to_history
                      THEN History_push(d.history, d.result.val.model, message)
                      ELSE d.history,
          ok |-> TRUE]
    ELSE [model |-> with_error(m, d.result.err),
          history |-> d.history,
          ok |-> FALSE]

\* update(message, model, history): the returned Model and the History after.
update(message, m, h) == Finish(Dispatch(message, m, h), message, m)

---------------------------------------------------------------------------
(* Inputs *)

\* Task descriptions typed by the user: "#a" and "x".
Descriptions == {<<"#", "a">>, <<"x">>}

\* FilterCondition values handed to update: the text and its parsed condition.
FilterConditions ==
    {FilterCondition(<<>>, AlwaysTrue),
     FilterCondition(<<"#", "a">>, TagCond(<<"a">>))}

\* Conditions the filtering algorithm is applied with.
Conditions ==
    {AlwaysTrue, TagCond(<<"a">>), NotCond(TagCond(<<"a">>)), TextCond(<<"x">>),
     AndCond(TagCond(<<"a">>), TextCond(<<"x">>)),
     OrCond(TagCond(<<"a">>), ContextCond(<<"h">>))}

\* Sequences of distinct ids, of every length up to MaxTasks.
NoDupSeqs(S, n) ==
    {s \in [1..n -> S] : \A i, j \in 1..n : i # j => s[i] # s[j]}

Paths == UNION {NoDupSeqs(TaskIds, n) : n \in 0..MaxTasks}

\* A Uuid that names no task.
MissingId == MaxTasks + 1

\* The ids of all tasks of a tree.
Ids(ts) == {flatten_tasks(ts)[i] : i \in 1..Len(flatten_tasks(ts))}

\* The paths of all tasks of a tree, as the filter computes them.
AllPaths(ts) ==
    LET all == filter_tasks(ts, AlwaysTrue)
    IN  {all.map[k] : k \in DOMAIN all.map}

NoCall == [op |-> "none"]

InitEnv == [next_task_id |-> 1, next_filter_id |-> 1, steps |-> 0]

---------------------------------------------------------------------------
(* The update loop (tui/run.rs): one update call per action *)

Init ==
    /\ model = Model_new
    /\ history = History_new(MaxHistory)
    /\ env = InitEnv
    /\ tasks = PersistentIndexMap_new
    /\ call = NoCall

Returned(r, message, env2) ==
    /\ model' = r.model
    /\ history' = r.history
    /\ call' = [op |-> "update", message |-> message, ok |-> r.ok,
                before |-> model, history_before |-> history]
    /\ env' = [env2 EXCEPT !.steps = env.steps + 1]
    /\ UNCHANGED tasks

Step(message, env2) ==
    /\ env.steps < MaxSteps
    /\ Returned(update(message, model, history), message, env2)

AddSiblingTask ==
    \E d \in Descriptions :
        /\ env.next_task_id <= MaxTasks
        /\ Step([type |-> "AddSiblingTask",
                 task |-> Task_new_with_id(d, env.next_task_id)],
                [env EXCEPT !.next_task_id = env.next_task_id + 1])

AddChildTask ==
    \E d \in Descriptions :
        /\ env.next_task_id <= MaxTasks
        /\ Step([type |-> "AddChildTask",
                 task |-> Task_new_with_id(d, env.next_task_id)],
                [env EXCEPT !.next_task_id = env.next_task_id + 1])

\* The path of an existing task, or a path whose last segment names no task.
RemoveInputs ==
    AllPaths(model.tasks)
        \cup {Append(p, MissingId) : p \in AllPaths(model.tasks) \cup {<<>>}}

RemoveTask ==
    \E path \in RemoveInputs : Step([type |-> "RemoveTask", path |-> path], env)

AddFilter ==
    \E fc \in FilterConditions :
        /\ env.next_filter_id <= MaxFilters
        /\ Step([type |-> "AddFilter",
                 filter |-> Filter_new(env.next_filter_id, "f", fc)],
                [env EXCEPT !.next_filter_id = env.next_filter_id + 1])

SelectFilter ==
    \E id \in 0..(MaxFilters + 1) :
        Step([type |-> "SelectFilter", filter_id |-> id], env)

ApplyFilter ==
    \E fc \in FilterConditions : Step([type |-> "ApplyFilter", filter |-> fc], env)

Navigate ==
    \E direction \in {"Up", "Down"} :
        Step([type |-> "Navigate", direction |-> direction], env)

Undo == Step([type |-> "Undo"], env)

Redo == Step([type |-> "Redo"], env)

Next ==
    \/ AddSiblingTask
    \/ AddChildTask
    \/ RemoveTask
    \/ AddFilter
    \/ SelectFilter
    \/ ApplyFilter
    \/ Navigate
    \/ Undo
    \/ Redo

Spec == Init /\ [][Next]_vars

---------------------------------------------------------------------------
(* The operations on the task tree at a path, applied to the tree in any   *)
(* order and with any path, resolvable or not                              *)

TreeInit ==
    /\ model = Model_new
    /\ history = History_new(MaxHistory)
    /\ env = InitEnv
    /\ tasks = PersistentIndexMap_new
    /\ call = NoCall

\* A caller keeps the new tree of an Ok and the old tree on an Err.
TreeCall(op, path, task, r) ==
    /\ tasks' = IF r.ok THEN r.val ELSE tasks
    /\ call' = [op |-> op, path |-> path, task |-> task,
                before |-> tasks, result |-> r]
    /\ UNCHANGED <<model, history, env>>

\* Task::new draws a fresh Uuid: any id that no task of the tree has.
NewTasks(descriptions) ==
    {Task_new_with_id(d, id) : d \in descriptions, id \in TaskIds \ Ids(tasks)}

InsertUncomplete ==
    \E path \in Paths, task \in NewTasks({<<"x">>}) :
        TreeCall("insert_task_and_uncomplete_parents", path, Some(task),
                 insert_task_and_uncomplete_parents(tasks, path, task))

InsertAtPath ==
    \E path \in Paths, task \in NewTasks({<<"x">>}) :
        TreeCall("insert_task_at_path", path, Some(task),
                 insert_task_at_path(tasks, path, task))

RemoveAtPath ==
    \E path \in Paths :
        TreeCall("remove_task_at_path", path, None,
                 remove_task_at_path(tasks, path))

FlipAtPath ==
    \E path \in Paths :
        TreeCall("flip_task_and_update_parents", path, None,
                 flip_task_and_update_parents(tasks, path))

TreeNext ==
    \/ InsertUncomplete
    \/ InsertAtPath
    \/ RemoveAtPath
    \/ FlipAtPath

SpecTree == TreeInit /\ [][TreeNext]_vars

\* The tree under the three operations that maintain completion.
ProvidedNext ==
    \/ InsertUncomplete
    \/ RemoveAtPath
    \/ FlipAtPath

SpecProvided == TreeInit /\ [][ProvidedNext]_vars

---------------------------------------------------------------------------
(* The filtering algorithm, applied to every tree of tagged and untagged   *)
(* tasks with every condition                                              *)

Grow ==
    \E path \in AllPaths(tasks) \cup {<<>>}, task \in NewTasks(Descriptions) :
        /\ tasks' = insert_task_at_path(tasks, path, task).val
        /\ call' = NoCall
        /\ UNCHANGED <<model, history, env>>

ApplyCondition ==
    \E condition \in Conditions :
        /\ call' = [op |-> "filter_tasks", condition |-> condition,
                    result |-> filter_tasks(tasks, condition)]
        /\ UNCHANGED <<model, history, env, tasks>>

FilterNext ==
    \/ Grow
    \/ ApplyCondition

SpecFilter == TreeInit /\ [][FilterNext]_vars

\* The selection after a change, as with_removed_task and
\* with_filter_condition compute it: the model holds the tree before the
\* change and a selected task; the new visible-set is the filtering of the
\* tree (after the removal, if any) with the new condition.
Reselected(m, filtered) ==
    /\ call' = [op |-> "get_new_selection", model |-> m, filtered |-> filtered,
                result |-> get_new_selection(m, filtered, None)]
    /\ UNCHANGED <<model, history, env, tasks>>

Removals == {<<>>} \cup AllPaths(tasks)

AfterRemoval(path) ==
    IF path = <<>> THEN tasks ELSE remove_task_at_path(tasks, path).val

Reselect ==
    \E selected \in Ids(tasks), path \in Removals, condition \in Conditions :
        Reselected(with_tasks(Model_new, tasks, Some(selected)),
                   filter_tasks(AfterRemoval(path), condition))

\* with_removed_task on a model that holds the tree, an active filter and a
\* selected task.
Removed(m, path) ==
    /\ call' = [op |-> "with_removed_task", model |-> m, path |-> path,
                result |-> with_removed_task(m, path)]
    /\ UNCHANGED <<model, history, env, tasks>>

RemoveFromModel ==
    \E selected \in Ids(tasks), path \in AllPaths(tasks), fc \in FilterConditions :
        Removed(with_tasks(with_filter_condition(Model_new, fc), tasks,
                           Some(selected)),
                path)

SelectNext ==
    \/ Grow
    \/ Reselect
    \/ RemoveFromModel

SpecSelect == TreeInit /\ [][SelectNext]_vars

\* with_selection_moved on a model that holds the tree, an active filter
\* and the visible-set, with no selection or any visible task selected.
SelectionMoved(m, direction) ==
    /\ call' = [op |-> "with_selection_moved", model |-> m,
                direction |-> direction,
                result |-> with_selection_moved(m, direction)]
    /\ UNCHANGED <<model, history, env, tasks>>

MoveFrom(base, direction) ==
    \E selection \in {None} \cup {Some(k) : k \in DOMAIN base.filtered_tasks.map} :
        SelectionMoved([base EXCEPT !.selected_task = selection], direction)

MoveSelection ==
    \E fc \in FilterConditions, direction \in {"Up", "Down"} :
        MoveFrom(with_filter_condition(with_tasks(Model_new, tasks, None), fc),
                 direction)

NavigateNext ==
    \/ Grow
    \/ MoveSelection

SpecNavigate == TreeInit /\ [][NavigateNext]_vars

\* with_sibling_task on a model that holds a tree with completed and
\* incomplete tasks, an active filter and the visible-set, with no
\* selection or any visible task selected.  Task::new draws a fresh Uuid.
FreshTasks ==
    {Task_new_with_id(<<"x">>, id) :
         id \in (TaskIds \cup {MissingId}) \ Ids(tasks)}

SiblingAdded(m, task) ==
    /\ call' = [op |-> "with_sibling_task", model |-> m, task |-> task,
                result |-> with_sibling_task(m, task)]
    /\ UNCHANGED <<model, history, env, tasks>>

AddSiblingFrom(base, task) ==
    \E selection \in {None} \cup {Some(k) : k \in DOMAIN base.filtered_tasks.map} :
        SiblingAdded([base EXCEPT !.selected_task = selection], task)

AddSibling ==
    \E fc \in FilterConditions, task \in FreshTasks :
        AddSiblingFrom(with_filter_condition(with_tasks(Model_new, tasks, None), fc),
                       task)

SiblingNext ==
    \/ Grow
    \/ FlipAtPath
    \/ AddSibling

SpecSibling == TreeInit /\ [][SiblingNext]_vars

---------------------------------------------------------------------------
(* Filter texts: parsed by FilterCondition::new and applied to a model *)

\* Texts typed as a filter: empty, blank, well-formed and malformed ones.
FilterTexts ==
    {<<>>,
     <<" ">>,
     <<"#", "a">>,
     <<"@", "h">>,
     <<"n", "o", "t", " ", "#", "a">>,
     <<"#", "a", " ", "o", "r", " ", "\"", "x", "\"">>,
     <<"[", "x", "]", " ", "a", "n", "d", " ", "#", "a">>,
     <<"(", "[", " ", "]", ")">>,
     <<"#", "a", " ">>,
     <<"#">>}

\* The text is parsed and, when it parses, becomes the active filter of a
\* model that holds the tree.
Applied(text, fc) ==
    /\ call' = [op |-> "FilterCondition::new", expression |-> text,
                result |-> fc,
                model |-> IF fc.ok
                          THEN with_filter_condition(
                                   with_tasks(Model_new, tasks, None), fc.val)
                          ELSE with_tasks(Model_new, tasks, None)]
    /\ UNCHANGED <<model, history, env, tasks>>

ApplyFilterText ==
    \E text \in FilterTexts : Applied(text, FilterCondition_new(text))

ParseNext ==
    \/ Grow
    \/ FlipAtPath
    \/ ApplyFilterText

SpecParse == TreeInit /\ [][ParseNext]_vars

---------------------------------------------------------------------------
(* Filter expressions written word by word: every sequence of up to        *)
(* MaxWords words, well-formed or not, handed to parse_filter_expression   *)

\* Number of words of a filter expression.
MaxWords == 5

AtomWords == {<<"#", "a">>, <<"@", "h">>, <<"[", "x", "]">>}

OperatorWords == {<<"n", "o", "t">>, <<"a", "n", "d">>, <<"o", "r">>}

Words == AtomWords \cup OperatorWords

WordSeqs == UNION {[1..n -> Words] : n \in 1..MaxWords}

\* The text of the words, one space between two words.
RECURSIVE Spaced(_)
Spaced(words) ==
    IF Len(words) = 1 THEN words[1]
    ELSE words[1] \o <<" ">> \o Spaced(Tail(words))

\* One expression is parsed in a run.
ParseCall(words, input) ==
    /\ call = NoCall
    /\ call' = [op |-> "parse_filter_expression", words |-> words,
                input |-> input, result |-> parse_filter_expression(input)]
    /\ UNCHANGED <<model, history, env, tasks>>

ParseWords == \E words \in WordSeqs : ParseCall(words, Spaced(words))

\* Length of the name of a tag or context reference.
MaxName == 3

\* A letter, a capital, a digit and the three punctuation characters of
\* names.
NameChars == {"a", "B", "1", ".", "_", "-"}

Names == UNION {[1..n -> NameChars] : n \in 1..MaxName}

\* "#name" or "@name": a filter expression of one word.
ParseReference ==
    \E sentinel \in {"#", "@"}, name \in Names :
        ParseCall(<<<<sentinel>> \o name>>, <<sentinel>> \o name)

GrammarNext ==
    \/ ParseWords
    \/ ParseReference

SpecGrammar == TreeInit /\ [][GrammarNext]_vars

---------------------------------------------------------------------------
(* Filter expressions between two parentheses, each of them '(' or ')' *)

\* Number of words between the two parentheses.
MaxInner == 3

InnerSeqs == UNION {[1..n -> Words] : n \in 1..MaxInner}

Parentheses == {"(", ")"}

\* One delimited expression is parsed in a run.
ParseDelimitedCall(open, close, words, input) ==
    /\ call = NoCall
    /\ call' = [op |-> "parse_filter_expression", open |-> open,
                close |-> close, words |-> words, input |-> input,
                result |-> parse_filter_expression(input)]
    /\ UNCHANGED <<model, history, env, tasks>>

ParseDelimited ==
    \E open \in Parentheses, close \in Parentheses, words \in InnerSeqs :
        ParseDelimitedCall(open, close, words,
                           <<open>> \o Spaced(words) \o <<close>>)

SpecDelimited == TreeInit /\ [][ParseDelimited]_vars

---------------------------------------------------------------------------
(* The flat list of test_filter_tasks_with_complex_condition: the four     *)
(* tasks, added in any order, and filter texts applied to the list         *)

\* "Task1 #work @home", "Task2 #personal @gym", "Task3 #work @office",
\* "Task4 #urgent @home"
ScenarioDescriptions ==
    <<
      <<"T", "a", "s", "k", "1", " ", "#", "w", "o", "r", "k", " ", "@",
        "h", "o", "m", "e">>,
      <<"T", "a", "s", "k", "2", " ", "#", "p", "e", "r", "s", "o", "n",
        "a", "l", " ", "@", "g", "y", "m">>,
      <<"T", "a", "s", "k", "3", " ", "#", "w", "o", "r", "k", " ", "@",
        "o", "f", "f", "i", "c", "e">>,
      <<"T", "a", "s", "k", "4", " ", "#", "u", "r", "g", "e", "n", "t",
        " ", "@", "h", "o", "m", "e">>
    >>

\* (#work and @home) or (#urgent and not @gym)
ComplexFilter ==
    <<"(", "#", "w", "o", "r", "k", " ", "a", "n", "d", " ", "@", "h", "o",
      "m", "e", ")", " ", "o", "r", " ", "(", "#", "u", "r", "g", "e", "n",
      "t", " ", "a", "n", "d", " ", "n", "o", "t", " ", "@", "g", "y", "m",
      ")">>

\* #work
WorkFilter ==
    <<"#", "w", "o", "r", "k">>

\* not @home
NotHomeFilter ==
    <<"n", "o", "t", " ", "@", "h", "o", "m", "e">>

\* #work or @gym
WorkOrGymFilter ==
    <<"#", "w", "o", "r", "k", " ", "o", "r", " ", "@", "g", "y", "m">>

\* #urgent and @home
UrgentAndHomeFilter ==
    <<"#", "u", "r", "g", "e", "n", "t", " ", "a", "n", "d", " ", "@", "h",
      "o", "m", "e">>

ScenarioFilters ==
    {ComplexFilter, WorkFilter, NotHomeFilter, WorkOrGymFilter,
     UrgentAndHomeFilter}

\* Task i of the scenario is added as the last root task, with id i.
AddScenarioTask ==
    \E i \in DOMAIN ScenarioDescriptions :
        /\ ~contains_key(tasks, i)
        /\ tasks' = insert(tasks, i, Task_new_with_id(ScenarioDescriptions[i], i))
        /\ call' = NoCall
        /\ UNCHANGED <<model, history, env>>

ApplyScenarioFilter ==
    \E text \in ScenarioFilters : Applied(text, FilterCondition_new(text))

ScenarioNext ==
    \/ AddScenarioTask
    \/ ApplyScenarioFilter

SpecScenario == TreeInit /\ [][ScenarioNext]_vars

---------------------------------------------------------------------------
(* The PersistentIndexMap on its own: insert and remove with any key *)

\* Number of distinct keys handed to the map.
MaxKeys == 3

MapKeys == 1..MaxKeys

MapValues == {"u", "v"}

\* The caller keeps the returned map.
MapCall(op, key, value, result) ==
    /\ tasks' = result
    /\ call' = [op |-> op, key |-> key, value |-> value, before |-> tasks,
                result |-> result]
    /\ UNCHANGED <<model, history, env>>

MapInsert ==
    \E key \in MapKeys, value \in MapValues :
        MapCall("insert", key, Some(value), insert(tasks, key, value))

MapRemove ==
    \E key \in MapKeys : MapCall("remove", key, None, remove(tasks, key))

\* swap returns an Option: the caller keeps its map on None.
MapSwapped(key1, key2, swapped) ==
    MapCall("swap", key1, Some(key2),
            IF is_some(swapped) THEN unwrap(swapped) ELSE tasks)

MapSwap ==
    \E key1, key2 \in MapKeys : MapSwapped(key1, key2, swap(tasks, key1, key2))

MapClear == MapCall("clear", None, None, clear(tasks))

MapNext ==
    \/ MapInsert
    \/ MapRemove
    \/ MapSwap
    \/ MapClear

SpecMap == TreeInit /\ [][MapNext]_vars

---------------------------------------------------------------------------
(* The PersistentIndexMap collected from an iterator of pairs *)

\* Length of the sequences of pairs handed to from_iter.
MaxPairs == 3

MapPairs == [key : MapKeys, value : MapValues]

PairSeqs == UNION {[1..n -> MapPairs] : n \in 0..MaxPairs}

\* pairs.into_iter().collect(): the caller keeps the collected map.
Collected(pairs, result) ==
    /\ call = NoCall
    /\ tasks' = result
    /\ call' = [op |-> "from_iter", pairs |-> pairs, result |-> result]
    /\ UNCHANGED <<model, history, env>>

Collect == \E pairs \in PairSeqs : Collected(pairs, from_iter(pairs))

SpecCollect == TreeInit /\ [][Collect]_vars

---------------------------------------------------------------------------
(* The History on its own: push, undo and redo with any snapshot *)

\* Models handed to the History: the empty model and models of one task.
Snapshots ==
    {Model_new} \cup
    {with_tasks(Model_new,
                insert(PersistentIndexMap_new, id, Task_new_with_id(<<"x">>, id)),
                None) : id \in TaskIds}

\* Messages saved with a snapshot.
Messages == {[type |-> "ApplyFilter", filter |-> fc] : fc \in FilterConditions}

\* History::new(max_history) for every capacity from 1 to MaxHistory.
HistoryInit ==
    /\ model = Model_new
    /\ history \in {History_new(n) : n \in 1..MaxHistory}
    /\ env = InitEnv
    /\ tasks = PersistentIndexMap_new
    /\ call = NoCall

HistoryCall(op, m, message, h, ret) ==
    /\ history' = h
    /\ call' = [op |-> op, model |-> m, message |-> message,
                before |-> history, ret |-> ret]
    /\ UNCHANGED <<model, env, tasks>>

HistoryReturn(op, m, u) == HistoryCall(op, m, None, u.history, u.ret)

HistoryPush ==
    \E m \in Snapshots, message \in Messages :
        HistoryCall("push", m, Some(message), History_push(history, m, message),
                    None)

HistoryUndo ==
    \E m \in Snapshots : HistoryReturn("undo", m, History_undo(history, m))

HistoryRedo ==
    \E m \in Snapshots : HistoryReturn("redo", m, History_redo(history, m))

HistoryNext ==
    \/ HistoryPush
    \/ HistoryUndo
    \/ HistoryRedo

SpecHistory == HistoryInit /\ [][HistoryNext]_vars

---------------------------------------------------------------------------
(* Trees as sets of nodes, for stating properties *)

\* Every task of a tree with its path from a root task.
RECURSIVE NodesUnder(_, _)
NodesUnder(ts, prefix) ==
    UNION {{[path |-> Append(prefix, k), task |-> ts.map[k]]}
               \cup NodesUnder(ts.map[k].subtasks, Append(prefix, k)) :
           k \in DOMAIN ts.map}

Nodes(ts) == NodesUnder(ts, <<>>)

IsProperPrefix(p, q) == Len(p) < Len(q) /\ SubSeq(q, 1, Len(p)) = p

\* a is a proper ancestor of d.
IsAncestor(a, d) == IsProperPrefix(a.path, d.path)

\* The children of a node of the tree.
Children(ts, n) == {c \in Nodes(ts) : Len(c.path) = Len(n.path) + 1 /\ IsAncestor(n, c)}

Resolves(ts, path) == \E n \in Nodes(ts) : n.path = path

\* The task at a path that resolves.
TaskAt(ts, path) == (CHOOSE n \in Nodes(ts) : n.path = path).task

\* The map in which the task at the end of the path lies: the root map for
\* a path of one segment, the subtasks of the parent otherwise.
RECURSIVE SiblingMap(_, _)
SiblingMap(ts, path) ==
    IF Len(path) <= 1 THEN ts
    ELSE SiblingMap(ts.map[Head(path)].subtasks, Tail(path))

\* The position (from 1) of a key in a sequence of distinct keys.
IndexIn(seq, k) == CHOOSE i \in 1..Len(seq) : seq[i] = k

---------------------------------------------------------------------------
(* Claims on the filtering algorithm (SpecFilter) *)

Filtering == call.op = "filter_tasks"

Matching(n) == evaluate(call.condition, n.task)

\* C1: filter_tasks puts a task in the visible-set if and only if the task,
\* one of its ancestors or one of its descendants satisfies the condition;
\* the keys of the visible-set are ids of tasks of the tree.
C1_VisibleIffSelfAncestorOrDescendantMatches ==
    Filtering =>
        /\ \A n \in Nodes(tasks) :
              contains_key(call.result, n.task.id) <=>
                  \E m \in Nodes(tasks) :
                      /\ Matching(m)
                      /\ (m = n \/ IsAncestor(m, n) \/ IsAncestor(n, m))
        /\ DOMAIN call.result.map \subseteq {n.task.id : n \in Nodes(tasks)}

\* A parent that matches only through one child, whose other child is left
\* out; and a task shown only because its parent matches.
C1_Witness ==
    /\ Filtering
    /\ \E p, a, b \in Nodes(tasks) :
          /\ a # b /\ IsAncestor(p, a) /\ IsAncestor(p, b)
          /\ ~Matching(p) /\ Matching(a) /\ ~Matching(b)
          /\ contains_key(call.result, p.task.id)
          /\ contains_key(call.result, a.task.id)
          /\ ~contains_key(call.result, b.task.id)

\* C2: the visible-set is ordered as the pre-order traversal of the tree: an
\* included task comes before each of its included descendants, and included
\* siblings come in the order of the tree.
C2_VisibleSetInPreOrder ==
    Filtering =>
        \A n, m \in Nodes(tasks) :
            (/\ contains_key(call.result, n.task.id)
             /\ contains_key(call.result, m.task.id)
             /\ \/ IsAncestor(n, m)
                \/ /\ n # m
                   /\ drop_last(n.path) = drop_last(m.path)
                   /\ IndexIn(SiblingMap(tasks, n.path).order, n.task.id)
                          < IndexIn(SiblingMap(tasks, m.path).order, m.task.id))
            => IndexIn(call.result.order, n.task.id)
                   < IndexIn(call.result.order, m.task.id)

---------------------------------------------------------------------------
(* Claims on the selection after a change (SpecSelect) *)

\* The node of a task of the tree.
NodeOf(ts, id) == CHOOSE n \in Nodes(ts) : n.task.id = id

\* The first position at which two paths differ.
FirstDifference(p, q) ==
    CHOOSE i \in 1..Len(p) :
        /\ p[i] # q[i]
        /\ \A j \in 1..(i - 1) : p[j] = q[j]

\* a comes before b in the pre-order traversal of the tree: a is an ancestor
\* of b, or at the first difference of their paths a's side is the earlier
\* sibling.
PreOrderBefore(ts, a, b) ==
    /\ a # b
    /\ ~IsAncestor(b, a)
    /\ \/ IsAncestor(a, b)
       \/ IndexIn(SiblingMap(ts, SubSeq(a.path, 1,
                                        FirstDifference(a.path, b.path))).order,
                  a.path[FirstDifference(a.path, b.path)])
            < IndexIn(SiblingMap(ts, SubSeq(b.path, 1,
                                            FirstDifference(a.path, b.path))).order,
                      b.path[FirstDifference(a.path, b.path)])

\* The position of a task in the pre-order flattening of the tree.
FlatPosition(ts, id) ==
    Cardinality({m \in Nodes(ts) : PreOrderBefore(ts, m, NodeOf(ts, id))})

Distance(i, j) == IF i >= j THEN i - j ELSE j - i

\* The tasks of the tree before the change that are in the new visible-set.
Candidates == {n.task.id : n \in {c \in Nodes(call.model.tasks) :
                                      contains_key(call.filtered, c.task.id)}}

\* id is the candidate nearest to the position of the previous selection,
\* the later position winning at equal distance.
Nearest(id, from) ==
    \A c \in Candidates \ {id} :
        \/ Distance(FlatPosition(call.model.tasks, id), from)
             < Distance(FlatPosition(call.model.tasks, c), from)
        \/ /\ Distance(FlatPosition(call.model.tasks, id), from)
                = Distance(FlatPosition(call.model.tasks, c), from)
           /\ FlatPosition(call.model.tasks, id)
                > FlatPosition(call.model.tasks, c)

PreviousHidden ==
    /\ call.op = "get_new_selection"
    /\ ~contains_key(call.filtered, unwrap(call.model.selected_task))

FlatAllVisible(m) ==
    \A k \in DOMAIN m.tasks.map :
        /\ len(m.tasks.map[k].subtasks) = 0
        /\ contains_key(m.filtered_tasks, k)

RemovedSelected ==
    /\ call.op = "with_removed_task"
    /\ FlatAllVisible(call.model)
    /\ is_some(call.model.selected_task)
    /\ call.path = <<unwrap(call.model.selected_task)>>

\* The root task after the one at position i (from 1), else the one before
\* it, else none.
FollowingElsePreceding(order, i) ==
    IF i < Len(order) THEN Some(order[i + 1])
    ELSE IF i > 1 THEN Some(order[i - 1])
    ELSE None

---------------------------------------------------------------------------
(* Claims on navigation (SpecNavigate) *)

Navigated == call.op = "with_selection_moved"

\* The visible tasks in their stored order.
VisibleOrder == keys(call.model.filtered_tasks)

\* C26: navigation wraps around: Down from the last visible task selects
\* the first and Up from the first selects the last; with no selection
\* Down selects the first and Up the last visible task; with an empty
\* visible-set the model is returned unchanged.
C26_NavigationWrapsAround ==
    Navigated =>
        /\ VisibleOrder = <<>> => call.result = call.model
        /\ VisibleOrder # <<>> =>
               /\ (/\ call.direction = "Down"
                    /\ call.model.selected_task
                           \in {None, Some(VisibleOrder[Len(VisibleOrder)])})
                       => call.result.selected_task = Some(VisibleOrder[1])
               /\ (/\ call.direction = "Up"
                    /\ call.model.selected_task \in {None, Some(VisibleOrder[1])})
                       => call.result.selected_task
                              = Some(VisibleOrder[Len(VisibleOrder)])

\* Down from the last of three visible tasks.
C26_Witness ==
    /\ Navigated
    /\ Len(VisibleOrder) = 3
    /\ call.direction = "Down"
    /\ call.model.selected_task = Some(VisibleOrder[3])
    /\ call.result.selected_task = Some(VisibleOrder[1])

---------------------------------------------------------------------------
(* Claims on adding a sibling (SpecSibling) *)

SiblingCall == call.op = "with_sibling_task"

\* The path of the selected task in the model the sibling is added to.
SelectedPath == get_path(call.model)

NewPath(parent_path) == Append(parent_path, call.task.id)

\* The new task is the last child of the task at the parent path and no
\* task on the parent path is completed.
LastChildOf(before, after, parent_path) ==
    /\ Resolves(after, NewPath(parent_path))
    /\ TaskAt(after, NewPath(parent_path)) = call.task
    /\ TaskAt(after, parent_path).subtasks.order
           = Append(TaskAt(before, parent_path).subtasks.order, call.task.id)
    /\ \A i \in 1..Len(parent_path) :
           ~TaskAt(after, SubSeq(parent_path, 1, i)).completed

\* The new task is the last root task and every task has the completion it
\* had.
LastRoot(before, after) ==
    /\ after.order = Append(before.order, call.task.id)
    /\ after.map[call.task.id] = call.task
    /\ \A n \in Nodes(before) :
           /\ Resolves(after, n.path)
           /\ TaskAt(after, n.path).completed = n.task.completed

\* C29: adding a sibling inserts the new task as the last child of the
\* selected task's parent and clears the completion of every ancestor of
\* the insertion point; when the selected task is a root task or nothing is
\* selected, the new task becomes the last root task and no completion
\* changes.
C29_SiblingIsLastChildOfParent ==
    SiblingCall =>
        /\ call.result.ok
        /\ IF is_some(SelectedPath) /\ Len(unwrap(SelectedPath)) >= 2
           THEN LastChildOf(call.model.tasks, call.result.val.tasks,
                            SubSeq(unwrap(SelectedPath), 1,
                                   Len(unwrap(SelectedPath)) - 1))
           ELSE LastRoot(call.model.tasks, call.result.val.tasks)

\* A sibling is added to a completed task whose parent is completed and
\* has two children.
C29_Witness ==
    /\ SiblingCall
    /\ call.result.ok
    /\ is_some(SelectedPath) /\ Len(unwrap(SelectedPath)) = 2
    /\ TaskAt(call.model.tasks, unwrap(SelectedPath)).completed
    /\ call.model.tasks.map[unwrap(SelectedPath)[1]].completed
    /\ len(call.model.tasks.map[unwrap(SelectedPath)[1]].subtasks) = 2
    /\ len(call.result.val.tasks.map[unwrap(SelectedPath)[1]].subtasks) = 3

---------------------------------------------------------------------------
(* Claims on the History (SpecHistory) *)

Newest(stack) == stack[Len(stack)]

WithoutNewest(stack) == SubSeq(stack, 1, Len(stack) - 1)

WithoutOldest(stack) == SubSeq(stack, 2, Len(stack))

\* C14: push appends the entry as the newest undo entry, after evicting the
\* oldest one when the undo stack holds max_history entries, and empties
\* the redo stack; the undo stack never holds more than max_history entries.
C14_PushEvictsOldestAndClearsRedo ==
    call.op = "push" =>
        /\ history.undo_stack =
               Append(IF Len(call.before.undo_stack) = call.before.max_history
                      THEN WithoutOldest(call.before.undo_stack)
                      ELSE call.before.undo_stack,
                      [model |-> call.model, message |-> unwrap(call.message)])
        /\ Len(history.undo_stack) <= history.max_history
        /\ history.redo_stack = <<>>

\* A push on a full undo stack of two or more entries: the oldest is gone.
C14_Witness ==
    /\ call.op = "push"
    /\ call.before.max_history >= 2
    /\ Len(call.before.undo_stack) = call.before.max_history
    /\ Len(history.undo_stack) = history.max_history
    /\ history.undo_stack[1] = call.before.undo_stack[2]

\* What undo does with the stack it pops (from) and the stack it appends to
\* (to); redo is the same with the two stacks exchanged.
Moved(from_before, to_before, from_after, to_after) ==
    IF from_before # <<>>
    THEN /\ from_after = WithoutNewest(from_before)
         /\ to_after = Append(to_before,
                              [model |-> call.model,
                               message |-> Newest(from_before).message])
         /\ call.ret = Some(Newest(from_before).model)
    ELSE /\ call.ret = None
         /\ from_after = from_before
         /\ to_after = to_before

\* C15: undo removes the newest undo entry, appends (live model, that
\* entry's action) to the redo stack and returns the entry's snapshot; on an
\* empty undo stack it returns nothing and changes neither stack.  redo is
\* the mirror image.
C15_UndoRedoMoveNewestEntry ==
    /\ call.op = "undo" =>
           Moved(call.before.undo_stack, call.before.redo_stack,
                 history.undo_stack, history.redo_stack)
    /\ call.op = "redo" =>
           Moved(call.before.redo_stack, call.before.undo_stack,
                 history.redo_stack, history.undo_stack)

\* A redo with entries on both stacks whose saved snapshot differs from the
\* live model.
C15_Witness ==
    /\ call.op = "redo"
    /\ call.before.undo_stack # <<>>
    /\ call.before.redo_stack # <<>>
    /\ is_some(call.ret)
    /\ unwrap(call.ret) # call.model

\* C16: after any sequence of push, undo and redo neither stack holds more
\* than max_history entries.
C16_StacksWithinCapacity ==
    /\ Len(history.undo_stack) <= history.max_history
    /\ Len(history.redo_stack) <= history.max_history

\* A redo has filled the undo stack up to max_history.
C16_Witness ==
    /\ call.op = "redo"
    /\ is_some(call.ret)
    /\ Len(history.undo_stack) = history.max_history

---------------------------------------------------------------------------
(* Claims on filter texts (SpecParse) *)

\* C20: the empty filter text parses to the always-true condition, which
\* evaluates true for every task; as the active filter it makes every task
\* of the tree visible.
C20_EmptyTextShowsEveryTask ==
    (call.op = "FilterCondition::new" /\ call.expression = <<>>) =>
        /\ call.result.ok
        /\ call.result.val.condition = AlwaysTrue
        /\ call.model.current_filter = call.result.val
        /\ \A n \in Nodes(tasks) :
              /\ evaluate(call.result.val.condition, n.task)
              /\ contains_key(call.model.filtered_tasks, n.task.id)

\* The empty text applied to a tree with a completed and an incomplete
\* task, one of them nested and one tagged.
C20_Witness ==
    /\ call.op = "FilterCondition::new" /\ call.expression = <<>>
    /\ \E n, m \in Nodes(tasks) :
          /\ n.task.completed /\ ~m.task.completed
          /\ Len(n.path) = 2
          /\ m.task.tags # {}
    /\ len(call.model.filtered_tasks) >= 2

---------------------------------------------------------------------------
(* Claims on the grammar of filter expressions (SpecGrammar) *)

ParsedWords == call.op = "parse_filter_expression"

NOT == <<"n", "o", "t">>
AND == <<"a", "n", "d">>
OR == <<"o", "r">>

\* The condition an atom word stands for.
AtomCondition(word) ==
    CASE word = <<"#", "a">> -> TagCond(<<"a">>)
      [] word = <<"@", "h">> -> ContextCond(<<"h">>)
      [] word = <<"[", "x", "]">> -> CompletionCond(TRUE)

\* The position of the last occurrence of a word, 0 when there is none.
LastOf(words, word) ==
    IF \E i \in DOMAIN words : words[i] = word
    THEN CHOOSE i \in DOMAIN words :
             words[i] = word /\ \A j \in (i + 1)..Len(words) : words[j] # word
    ELSE 0

Before(words, i) == SubSeq(words, 1, i - 1)
After(words, i) == SubSeq(words, i + 1, Len(words))

\* A factor without parentheses: 'not's and then one atom.
IsFactor(words) ==
    /\ words # <<>>
    /\ words[Len(words)] \in AtomWords
    /\ \A i \in 1..(Len(words) - 1) : words[i] = NOT

\* Factors joined by 'and'.
RECURSIVE IsTerm(_)
IsTerm(words) ==
    IF LastOf(words, AND) = 0 THEN IsFactor(words)
    ELSE /\ IsTerm(Before(words, LastOf(words, AND)))
         /\ IsFactor(After(words, LastOf(words, AND)))

\* Terms joined by 'or'.
RECURSIVE IsExpression(_)
IsExpression(words) ==
    IF LastOf(words, OR) = 0 THEN IsTerm(words)
    ELSE /\ IsExpression(Before(words, LastOf(words, OR)))
         /\ IsTerm(After(words, LastOf(words, OR)))

\* The grouping by precedence: 'or' splits first and its last occurrence
\* is the outermost (left-associative), then 'and' in the same way, and a
\* 'not' applies to the factor after it.
RECURSIVE FactorGroup(_)
FactorGroup(words) ==
    IF Head(words) = NOT THEN NotCond(FactorGroup(Tail(words)))
    ELSE AtomCondition(Head(words))

RECURSIVE TermGroup(_)
TermGroup(words) ==
    IF LastOf(words, AND) = 0 THEN FactorGroup(words)
    ELSE AndCond(TermGroup(Before(words, LastOf(words, AND))),
                 FactorGroup(After(words, LastOf(words, AND))))

RECURSIVE ExpressionGroup(_)
ExpressionGroup(words) ==
    IF LastOf(words, OR) = 0 THEN TermGroup(words)
    ELSE OrCond(ExpressionGroup(Before(words, LastOf(words, OR))),
                TermGroup(After(words, LastOf(words, OR))))

A == <<"#", "a">>
B == <<"@", "h">>
C == <<"[", "x", "]">>

\* C21: 'or' binds loosest, then 'and', then 'not'; chains of 'and' and of
\* 'or' group to the left and a 'not' negates the one factor after it: an
\* expression without parentheses parses to the grouping by precedence,
\* 'not A or B' to (not A) or B and 'A or B and C' to A or (B and C).
C21_PrecedenceAndAssociativity ==
    ParsedWords =>
        /\ IsExpression(call.words) =>
               call.result = Ok(ExpressionGroup(call.words))
        /\ call.words = <<NOT, A, OR, B>> =>
               call.result = Ok(OrCond(NotCond(AtomCondition(A)),
                                       AtomCondition(B)))
        /\ call.words = <<A, OR, B, AND, C>> =>
               call.result = Ok(OrCond(AtomCondition(A),
                                       AndCond(AtomCondition(B),
                                               AtomCondition(C))))
        /\ call.words = <<A, AND, B, AND, C>> =>
               call.result = Ok(AndCond(AndCond(AtomCondition(A),
                                                AtomCondition(B)),
                                        AtomCondition(C)))
        /\ call.words = <<A, OR, B, OR, C>> =>
               call.result = Ok(OrCond(OrCond(AtomCondition(A),
                                              AtomCondition(B)),
                                       AtomCondition(C)))

\* 'not A or B' is parsed to a disjunction.
C21_Witness ==
    /\ ParsedWords
    /\ call.words = <<NOT, A, OR, B>>
    /\ call.result.ok
    /\ call.result.val.kind = "Or"

\* The reference of a one-word expression: its sentinel and its name.
Sentinel == Head(call.words[1])
Name == Tail(call.words[1])

IsReference == ParsedWords /\ Len(call.words) = 1 /\ Sentinel \in {"#", "@"}

\* C22: '#' or '@' followed by a non-empty string of letters, digits, '.',
\* '_' and '-' parses as one tag or context reference whose name is the
\* whole string.
C22_IdentifierCharacters ==
    (IsReference /\ \A i \in DOMAIN Name : Name[i] \in NameChars) =>
        call.result = Ok(IF Sentinel = "#" THEN TagCond(Name)
                         ELSE ContextCond(Name))

---------------------------------------------------------------------------
(* Claims on the flat list of four tasks (SpecScenario) *)

Work == <<"w", "o", "r", "k">>
Urgent == <<"u", "r", "g", "e", "n", "t">>
Home == <<"h", "o", "m", "e">>
Gym == <<"g", "y", "m">>

\* What each filter text of the scenario says of a task, in terms of the
\* task's tag and context sets.
Satisfies(text, task) ==
    CASE text = ComplexFilter ->
             \/ Work \in task.tags /\ Home \in task.contexts
             \/ Urgent \in task.tags /\ ~(Gym \in task.contexts)
      [] text = WorkFilter -> Work \in task.tags
      [] text = NotHomeFilter -> ~(Home \in task.contexts)
      [] text = WorkOrGymFilter -> Work \in task.tags \/ Gym \in task.contexts
      [] text = UrgentAndHomeFilter ->
             Urgent \in task.tags /\ Home \in task.contexts

Childless(ts) == \A id \in DOMAIN ts.map : len(ts.map[id].subtasks) = 0

FilteredFlatList ==
    /\ call.op = "FilterCondition::new"
    /\ call.expression \in ScenarioFilters
    /\ Childless(tasks)

\* C23: for a flat list of childless root tasks the visible-set holds
\* exactly the tasks for which the condition is true; of the four tasks
\* '#work @home', '#personal @gym', '#work @office', '#urgent @home' the
\* filter '(#work and @home) or (#urgent and not @gym)' shows exactly the
\* first and the fourth.
C23_FlatListShowsMatchingTasks ==
    FilteredFlatList =>
        /\ call.result.ok
        /\ DOMAIN call.model.filtered_tasks.map =
               {id \in DOMAIN tasks.map :
                    Satisfies(call.expression, tasks.map[id])}
        /\ \A id \in DOMAIN call.model.filtered_tasks.map :
               call.model.filtered_tasks.map[id] = <<id>>
        /\ (call.expression = ComplexFilter /\ len(tasks) = 4) =>
               DOMAIN call.model.filtered_tasks.map = {1, 4}

\* The complex filter is applied to the list of all four tasks.
C23_Witness ==
    /\ FilteredFlatList
    /\ call.expression = ComplexFilter
    /\ len(tasks) = 4
    /\ len(call.model.filtered_tasks) = 2

---------------------------------------------------------------------------
(* Claims on the PersistentIndexMap (SpecMap) *)

Pair(key, value) == [key |-> key, value |-> value]

\* The keys of a sequence of keys, as a set.
KeySet(order) == {order[i] : i \in DOMAIN order}

\* C24: insert of a present key replaces its value and keeps the key's
\* position and the length of the map; insert of an absent key appends it
\* at the end of the iteration order.
C24_InsertKeepsPositionOrAppends ==
    call.op = "insert" =>
        /\ get(call.result, call.key) = call.value
        /\ contains_key(call.before, call.key) =>
               /\ len(call.result) = len(call.before)
               /\ get_index(call.result, call.key)
                      = get_index(call.before, call.key)
               /\ keys(call.result) = keys(call.before)
               /\ iter(call.result) =
                      [i \in DOMAIN iter(call.before) |->
                          IF iter(call.before)[i].key = call.key
                          THEN Pair(call.key, unwrap(call.value))
                          ELSE iter(call.before)[i]]
        /\ ~contains_key(call.before, call.key) =>
               iter(call.result) =
                   Append(iter(call.before), Pair(call.key, unwrap(call.value)))

\* A present key that is not the last one gets another value.
C24_Witness ==
    /\ call.op = "insert"
    /\ contains_key(call.before, call.key)
    /\ get(call.before, call.key) # call.value
    /\ len(call.before) = 3
    /\ get_index(call.before, call.key) = Some(0)

\* C25: remove of a present key deletes it from the lookup structure and
\* from the iteration order and the remaining keys keep their relative
\* order; remove of an absent key yields a map equal to the receiver.
C25_RemoveKeepsRelativeOrder ==
    call.op = "remove" =>
        /\ contains_key(call.before, call.key) =>
               /\ DOMAIN call.result.map = DOMAIN call.before.map \ {call.key}
               /\ KeySet(keys(call.result))
                      = KeySet(keys(call.before)) \ {call.key}
               /\ Len(keys(call.result)) = Len(keys(call.before)) - 1
               /\ \A a, b \in KeySet(keys(call.result)) :
                      IndexIn(keys(call.result), a) < IndexIn(keys(call.result), b)
                          <=> IndexIn(keys(call.before), a)
                                  < IndexIn(keys(call.before), b)
               /\ \A k \in DOMAIN call.result.map :
                      call.result.map[k] = call.before.map[k]
        /\ ~contains_key(call.before, call.key) => call.result = call.before

\* The middle key of three is removed.
C25_Witness ==
    /\ call.op = "remove"
    /\ len(call.before) = 3
    /\ get_index(call.before, call.key) = Some(1)
    /\ len(call.result) = 2

\* The number of times a key occurs in the order.
Occurrences(order, key) == Cardinality({i \in DOMAIN order : order[i] = key})

\* C34: after any sequence of insert, remove, swap and clear from an empty
\* map the order holds exactly the keys of the lookup map, each once, so
\* len() is the number of entries the iteration yields and get_index and
\* get_key_at_index are inverse to each other on the keys of the map.
C34_OrderHoldsEachKeyOnce ==
    /\ KeySet(tasks.order) = DOMAIN tasks.map
    /\ \A k \in DOMAIN tasks.map : Occurrences(tasks.order, k) = 1
    /\ len(tasks) = Len(iter(tasks))
    /\ \A k \in DOMAIN tasks.map :
           /\ is_some(get_index(tasks, k))
           /\ get_key_at_index(tasks, unwrap(get_index(tasks, k))) = Some(k)
    /\ \A i \in 0..(len(tasks) - 1) :
           /\ is_some(get_key_at_index(tasks, i))
           /\ get_index(tasks, unwrap(get_key_at_index(tasks, i))) = Some(i)

\* The first and the last of three keys have been swapped.
C34_Witness ==
    /\ call.op = "swap"
    /\ len(call.before) = 3
    /\ call.before.order[1] = call.key
    /\ call.before.order[3] = unwrap(call.value)
    /\ tasks.order[1] = unwrap(call.value)
    /\ tasks.order[3] = call.key

\* The pairs inserted one after another into a map.
RECURSIVE InsertAll(_, _)
InsertAll(pairs, acc) ==
    IF pairs = <<>> THEN acc
    ELSE InsertAll(Tail(pairs), insert(acc, Head(pairs).key, Head(pairs).value))

\* C35: the map collected from a sequence of pairs equals (lookup map and
\* order) the map obtained by inserting the pairs one after another into an
\* empty map, also when a key occurs more than once in the sequence.
C35_FromIterEqualsInserts ==
    call.op = "from_iter"
        => call.result = InsertAll(call.pairs, PersistentIndexMap_new)

\* C36: a filter text whose expression is delimited by anything but an
\* opening '(' and a closing ')' is rejected with a parse error.
C36_MismatchedParenthesesRejected ==
    (/\ call.op = "parse_filter_expression"
     /\ <<call.open, call.close>> # <<"(", ")">>)
        => ~call.result.ok

---------------------------------------------------------------------------
(* Claims on the update loop (Spec) *)

Updated == call.op = "update"

\* The data of a model: task tree, filter registry, active filter,
\* visible-set and selection.
SameData(a, b) ==
    /\ a.tasks = b.tasks
    /\ a.filters = b.filters
    /\ a.selected_filter_id = b.selected_filter_id
    /\ a.current_filter = b.current_filter
    /\ a.filtered_tasks = b.filtered_tasks
    /\ a.selected_task = b.selected_task

StateChanging ==
    {"AddSiblingTask", "AddChildTask", "RemoveTask",
     "AddFilter", "SelectFilter", "ApplyFilter"}

\* C3: in every state reachable from Model::new() through update, the
\* selection, when present, is a key of the visible-set of that state.
C3_SelectionIsKeyOfVisibleSet ==
    is_some(model.selected_task) =>
        contains_key(model.filtered_tasks, unwrap(model.selected_task))

\* An update after which the task selected before is no longer visible and
\* another visible task is selected.
C3_Witness ==
    /\ Updated /\ call.ok
    /\ is_some(call.before.selected_task)
    /\ ~contains_key(model.filtered_tasks, unwrap(call.before.selected_task))
    /\ is_some(model.selected_task)
    /\ contains_key(model.filtered_tasks, unwrap(model.selected_task))

\* C4: an Undo that immediately follows a successful state-changing action
\* returns a model with the data of the model before that action.
C4_UndoRestoresModelBeforeAction ==
    [][(/\ Updated /\ call.ok /\ call.message.type \in StateChanging
        /\ call'.op = "update" /\ call'.message.type = "Undo"
        /\ env'.steps = env.steps + 1)
       => SameData(model', call.before)]_vars

\* C10: a failed update returns a model with the data of its input and an
\* error status message, and leaves the undo and redo stacks as they were.
C10_FailedUpdateChangesNothing ==
    (Updated /\ ~call.ok) =>
        /\ SameData(model, call.before)
        /\ model.message.kind = "Error"
        /\ history.undo_stack = call.history_before.undo_stack
        /\ history.redo_stack = call.history_before.redo_stack

\* A failed update with snapshots on both stacks and tasks in the tree.
C10_Witness ==
    /\ Updated /\ ~call.ok
    /\ call.history_before.undo_stack # <<>>
    /\ call.history_before.redo_stack # <<>>
    /\ len(call.before.tasks) > 0

\* The id the caller of get_new_selection asks for: the id of the task that
\* with_sibling_task and with_child_task have added, none otherwise.
Desired ==
    IF call.message.type \in {"AddSiblingTask", "AddChildTask"}
    THEN Some(call.message.task.id)
    ELSE None

C17_RedoAfterUndoRestores ==
    [][(/\ Updated /\ call.ok /\ call.message.type = "Undo"
        /\ call'.op = "update" /\ call'.message.type = "Redo"
        /\ env'.steps = env.steps + 1)
       => /\ call'.ok
          /\ SameData(model', call.before)
          /\ Len(history'.undo_stack) = Len(call.history_before.undo_stack)
          /\ Len(history'.redo_stack) = Len(call.history_before.redo_stack)]_vars

\* The third update is a successful Redo, so the first was an action and
\* the second its Undo; the task the action added is in the tree.
C17_Witness ==
    /\ Updated /\ call.ok /\ call.message.type = "Redo"
    /\ env.steps = 3
    /\ len(model.tasks) > 0
    /\ history.undo_stack # <<>>
    /\ history.redo_stack = <<>>

\* C18: Navigate through update changes nothing but the selection: tree,
\* filter registry, active filter and visible-set are those of the input,
\* nothing is pushed on the undo stack and the redo stack is not cleared.
C18_NavigateChangesOnlySelection ==
    (Updated /\ call.message.type = "Navigate") =>
        /\ call.ok
        /\ model = [call.before EXCEPT !.selected_task = model.selected_task]
        /\ model.tasks = call.before.tasks
        /\ model.filters = call.before.filters
        /\ model.selected_filter_id = call.before.selected_filter_id
        /\ model.current_filter = call.before.current_filter
        /\ model.filtered_tasks = call.before.filtered_tasks
        /\ history.undo_stack = call.history_before.undo_stack
        /\ history.redo_stack = call.history_before.redo_stack

\* A Navigate that moves the selection while both stacks hold an entry.
C18_Witness ==
    /\ Updated /\ call.message.type = "Navigate"
    /\ model.selected_task # call.before.selected_task
    /\ history.undo_stack # <<>>
    /\ history.redo_stack # <<>>

\* C19: every key of the visible-set is the id of a task of the tree, and
\* the path stored for it leads from a root task to that task.
C19_VisiblePathsResolve ==
    \A k \in DOMAIN model.filtered_tasks.map :
        /\ \E n \in Nodes(model.tasks) : n.task.id = k
        /\ Resolves(model.tasks, model.filtered_tasks.map[k])
        /\ TaskAt(model.tasks, model.filtered_tasks.map[k]).id = k

\* After a removal a task two levels down is still visible.
C19_Witness ==
    /\ Updated /\ call.ok /\ call.message.type = "RemoveTask"
    /\ \E k \in DOMAIN model.filtered_tasks.map :
          /\ Len(model.filtered_tasks.map[k]) = 2
          /\ TaskAt(model.tasks, model.filtered_tasks.map[k]).id = k

\* C27: in every state reached from Model::new() through update the
\* stored visible-set is the filtering of that state's task tree with that
\* state's active filter condition: same keys, same paths, same order.
C27_VisibleSetIsFilterOfTree ==
    model.filtered_tasks
        = filter_tasks(model.tasks, model.current_filter.condition)

\* Under a filter other than the default one some tasks of the tree are
\* visible and some are hidden.
C27_Witness ==
    /\ Updated /\ call.ok
    /\ model.current_filter.condition # AlwaysTrue
    /\ len(model.filtered_tasks) >= 1
    /\ Cardinality(Nodes(model.tasks)) > len(model.filtered_tasks)

\* C28: in every state reached from Model::new() through update there is
\* no selection if and only if the visible-set is empty.
C28_NoSelectionIffNothingVisible ==
    is_none(model.selected_task) <=> len(model.filtered_tasks) = 0

\* From a state without a selection, with every task hidden, an update
\* makes a task visible and selects one.
C28_Witness ==
    /\ Updated /\ call.ok
    /\ is_none(call.before.selected_task)
    /\ len(call.before.tasks) >= 1
    /\ len(call.before.filtered_tasks) = 0
    /\ len(model.filtered_tasks) >= 1
    /\ is_some(model.selected_task)

\* C33: in every state reached from Model::new() through update the active
\* filter condition is the condition of the registered filter that
\* selected_filter_id names.
C33_ActiveFilterIsSelectedFilter ==
    /\ is_some(model.selected_filter_id)
    /\ contains_key(model.filters, unwrap(model.selected_filter_id))
    /\ model.current_filter.condition
           = model.filters.map[unwrap(model.selected_filter_id)]
                 .filter_condition.condition

---------------------------------------------------------------------------
(* Claims on the operations at a path (SpecTree, SpecProvided) *)

Flipped == call.op = "flip_task_and_update_parents" /\ call.result.ok

\* The positions of the path whose prefix resolves to no task.
Unresolved(ts, path) ==
    {i \in 1..Len(path) : ~Resolves(ts, SubSeq(path, 1, i))}

FirstMissing(ts, path) ==
    path[CHOOSE i \in Unresolved(ts, path) :
             \A j \in Unresolved(ts, path) : i <= j]

AllChildrenCompleted(ts, n) == \A c \in Children(ts, n) : c.task.completed

\* C5: when the flip makes the target completed, every descendant of the
\* target is completed in the resulting tree.
C5_FlipToCompletedCompletesDescendants ==
    (Flipped /\ TaskAt(tasks, call.path).completed) =>
        \A d \in Nodes(tasks) :
            IsProperPrefix(call.path, d.path) => d.task.completed

\* C6: in every tree reachable through insert-and-uncomplete, remove and
\* flip, a task with a child is completed iff all its children are.
C6_ParentCompletedIffChildrenCompleted ==
    \A n \in Nodes(tasks) :
        Children(tasks, n) # {} =>
            (n.task.completed <=> AllChildrenCompleted(tasks, n))

\* C7: after a flip, every proper ancestor on the path is completed exactly
\* when all of its children in the resulting tree are completed.
C7_FlipRecomputesAncestors ==
    Flipped =>
        \A n \in Nodes(tasks) :
            IsProperPrefix(n.path, call.path) =>
                (n.task.completed <=> AllChildrenCompleted(tasks, n))

\* A completed parent with all children completed, one child of which is
\* flipped to incomplete: the parent is incomplete afterwards.
C7_Witness ==
    /\ Flipped
    /\ Len(call.path) = 2
    /\ TaskAt(call.before, drop_last(call.path)).completed
    /\ AllChildrenCompleted(call.before,
           [path |-> drop_last(call.path),
            task |-> TaskAt(call.before, drop_last(call.path))])
    /\ ~TaskAt(tasks, call.path).completed
    /\ ~TaskAt(tasks, drop_last(call.path)).completed

\* C8: insert-and-uncomplete with a path that resolves adds the task as the
\* last child of the task at the end of the path and leaves every task on
\* the path incomplete; with an empty path the task is added at the end of
\* the root and every other task is as before.
C8_InsertUncompletesPath ==
    (/\ call.op = "insert_task_and_uncomplete_parents"
     /\ Unresolved(call.before, call.path) = {}) =>
        /\ call.result.ok
        /\ Resolves(tasks, Append(call.path, unwrap(call.task).id))
        /\ TaskAt(tasks, Append(call.path, unwrap(call.task).id)) = unwrap(call.task)
        /\ IF call.path = <<>>
           THEN /\ tasks.order = Append(call.before.order, unwrap(call.task).id)
                /\ \A k \in DOMAIN call.before.map :
                       tasks.map[k] = call.before.map[k]
           ELSE /\ TaskAt(tasks, call.path).subtasks.order =
                       Append(TaskAt(call.before, call.path).subtasks.order,
                              unwrap(call.task).id)
                /\ \A i \in 1..Len(call.path) :
                       ~TaskAt(tasks, SubSeq(call.path, 1, i)).completed

\* An insertion two levels down under tasks that were all completed.
C8_Witness ==
    /\ call.op = "insert_task_and_uncomplete_parents"
    /\ call.result.ok
    /\ Len(call.path) = 2
    /\ \A i \in 1..2 : TaskAt(call.before, SubSeq(call.path, 1, i)).completed
    /\ Resolves(tasks, Append(call.path, unwrap(call.task).id))

PathOps ==
    {"insert_task_at_path", "insert_task_and_uncomplete_parents",
     "remove_task_at_path", "flip_task_and_update_parents"}

\* C9: insert, remove and flip with a path that has a segment resolving to
\* no task return an error that names the first missing id, and no tree.
C9_UnresolvedPathIsError ==
    (call.op \in PathOps /\ Unresolved(call.before, call.path) # {}) =>
        /\ ~call.result.ok
        /\ "val" \notin DOMAIN call.result
        /\ call.result.err.id = FirstMissing(call.before, call.path)
        /\ tasks = call.before

\* A removal whose path resolves up to its last segment, which is missing.
C9_Witness ==
    /\ call.op = "remove_task_at_path"
    /\ Len(call.path) = 2
    /\ Unresolved(call.before, call.path) = {2}
    /\ ~call.result.ok


\* p is q or a prefix of q.
IsPrefix(p, q) == p = q \/ IsProperPrefix(p, q)

\* The children that a task keeps: its children in their order, without the
\* removed task.
KeptChildren(order, parent_path, removed_path) ==
    SelectSeq(order, LAMBDA k : Append(parent_path, k) # removed_path)

RemovedAtPath ==
    /\ call.op = "remove_task_at_path"
    /\ Resolves(call.before, call.path)

\* C30: remove at a path that resolves yields a tree without the target
\* task and its descendants, in which every other task keeps its id,
\* description, completion, children and position among its siblings; the
\* completion of the ancestors of the removed task is as it was.
C30_RemoveLeavesOtherTasks ==
    RemovedAtPath =>
        /\ call.result.ok
        /\ {n.path : n \in Nodes(tasks)}
               = {n.path : n \in {o \in Nodes(call.before) :
                                      ~IsPrefix(call.path, o.path)}}
        /\ tasks.order = KeptChildren(call.before.order, <<>>, call.path)
        /\ \A n \in Nodes(tasks) :
               /\ n.task.id = TaskAt(call.before, n.path).id
               /\ n.task.description = TaskAt(call.before, n.path).description
               /\ n.task.completed = TaskAt(call.before, n.path).completed
               /\ n.task.subtasks.order
                      = KeptChildren(TaskAt(call.before, n.path).subtasks.order,
                                     n.path, call.path)
               /\ ~IsProperPrefix(n.path, call.path) =>
                      n.task = TaskAt(call.before, n.path)

\* The first of two children is removed from under an incomplete parent,
\* and the child that stays is completed.
C30_Witness ==
    /\ RemovedAtPath
    /\ Len(call.path) = 2
    /\ ~TaskAt(call.before, SubSeq(call.path, 1, 1)).completed
    /\ TaskAt(call.before, SubSeq(call.path, 1, 1)).subtasks.order[1] = call.path[2]
    /\ len(TaskAt(tasks, SubSeq(call.path, 1, 1)).subtasks) = 1
    /\ \A c \in Children(tasks, [path |-> SubSeq(call.path, 1, 1)]) :
           c.task.completed


FlippedAtPath ==
    /\ call.op = "flip_task_and_update_parents"
    /\ Resolves(call.before, call.path)

\* The task at the path lies on the line of the flipped task: it is the
\* target, an ancestor of the target or a descendant of the target.
OnFlipLine(path) == IsPrefix(path, call.path) \/ IsPrefix(call.path, path)

\* C31: flip at a path that resolves changes the completion only of the
\* target, of its descendants and of the ancestors on the path; every task
\* outside these, and every task's id, description and position among its
\* siblings, is unchanged.  Flipping a childless root task changes that
\* task alone.
C31_FlipChangesOnlyItsLine ==
    FlippedAtPath =>
        /\ call.result.ok
        /\ {n.path : n \in Nodes(tasks)} = {n.path : n \in Nodes(call.before)}
        /\ tasks.order = call.before.order
        /\ \A n \in Nodes(tasks) :
               /\ n.task.id = TaskAt(call.before, n.path).id
               /\ n.task.description = TaskAt(call.before, n.path).description
               /\ n.task.subtasks.order
                      = TaskAt(call.before, n.path).subtasks.order
               /\ ~OnFlipLine(n.path) => n.task = TaskAt(call.before, n.path)
        /\ (Len(call.path) = 1 /\ len(TaskAt(call.before, call.path).subtasks) = 0)
               => tasks = [call.before EXCEPT
                              !.map[call.path[1]].completed = ~@]

\* The first of two children is flipped: its sibling is outside the line.
C31_Witness ==
    /\ FlippedAtPath
    /\ Len(call.path) = 2
    /\ TaskAt(call.before, SubSeq(call.path, 1, 1)).subtasks.order[1] = call.path[2]
    /\ len(TaskAt(call.before, SubSeq(call.path, 1, 1)).subtasks) = 2
    /\ TaskAt(tasks, call.path).completed


\* Two trees of the same tasks in which every task has the same completion.
SameCompletion(a, b) ==
    /\ {n.path : n \in Nodes(a)} = {n.path : n \in Nodes(b)}
    /\ \A n \in Nodes(a) : TaskAt(b, n.path).completed = n.task.completed

\* C32: flipping twice in succession at the same path that resolves
\* restores the completion of every task, in every tree reachable through
\* insert-and-uncomplete, remove and flip: a step that flips at the path of
\* the flip before it ends in the completion that flip started from.
C32_DoubleFlipRestoresCompletion ==
    [][(/\ Flipped
        /\ call'.op = "flip_task_and_update_parents"
        /\ call'.path = call.path
        /\ call'.before = tasks
        /\ call'.result.ok)
           => SameCompletion(tasks', call.before)]_vars

=============================================================================
